---- MODULE Spec2Model ----
(***************************************************************************)
(* NL-Mesh-Inspect: the model registry with its state token, the query     *)
(* parser, and the two analysis agents (LangGraphNLMeshAgent, the          *)
(* deterministic pipeline, and LLMNLMeshAgent, the tool-selection          *)
(* workflow that NLMeshInspectAgent wraps).                                *)
(*                                                                         *)
(* Strings of the program are TLA+ strings.  uuid4() strings are modelled  *)
(* as the numbers 1..MaxUuid in the order they are drawn (a drawn value is *)
(* never drawn again); those identifiers and the request fields compared   *)
(* with them are numbers: EmptyId is "", OtherId is a string that is no    *)
(* uuid ("ghost", "old-state-id").                                         *)
(***************************************************************************)
EXTENDS Naturals, Sequences, FiniteSets, TLC

\* ------------------------------------------------------------------ bounds

\* How many uuid4() values one run may draw (model ids and state tokens).
MaxUuid == 6

\* ----------------------------------------------------------------- strings

\* str.__contains__ / re.search of a literal: lit occurs somewhere in text.
Contains(text, lit) ==
  \E i \in 1..(Len(text) + 1) :
     /\ i + Len(lit) - 1 <= Len(text)
     /\ SubSeq(text, i, i + Len(lit) - 1) = lit

\* str.index: 0-based offset of the first occurrence (only used when Contains).
IndexOf(text, lit) ==
  (CHOOSE i \in 1..(Len(text) + 1) :
      /\ i + Len(lit) - 1 <= Len(text)
      /\ SubSeq(text, i, i + Len(lit) - 1) = lit
      /\ \A j \in 1..(i - 1) : SubSeq(text, j, j + Len(lit) - 1) # lit) - 1

\* str.lower on one character (the upper-case letters the modelled texts use).
LowerChar(c) ==
  CASE c = "A" -> "a" [] c = "C" -> "c" [] c = "E" -> "e" [] c = "H" -> "h"
    [] c = "M" -> "m" [] c = "S" -> "s" [] c = "V" -> "v"
    [] OTHER -> c

RECURSIVE lower(_)
lower(text) ==
  IF text = "" THEN ""
  ELSE LowerChar(SubSeq(text, 1, 1)) \o lower(SubSeq(text, 2, Len(text)))

\* ------------------------------------------------------- models.py / enums

\* AnalysisIntent, in declaration order.
AnalysisIntent == <<"query", "operation", "modification">>

\* QueryType, in declaration order.
QueryType ==
  <<"measurement", "feature_detection", "topology_check", "selection", "modification">>

\* GeometricEntity, in declaration order.
GeometricEntity ==
  <<"vertex", "edge", "face", "hole", "cylinder", "plane", "sphere">>

\* ------------------------------------------------- nlp_engine.py / tables
\* The modelled query texts are ASCII plus the ten CJK characters of the
\* comparison, range and unit words and the six of "xianshi suoyou kongdong"
\* (show all holes), each written as one ASCII character:
\*   da "}"   xiao "{"   yu "~"   deng "="   bu "!"   dao "^"
\*   li "%"   mi "@"     ying "&"  cun "$"
\*   xian "<" shi ">"    suo "["   you "]"    kong "("  dong ")"
\* so "}~" is "greater than", "{~" "less than", "^" "to", "%@" "centimetre",
\* "@" "metre", "&$" "inch", "<>" "show", "[]" "all", "()" "hole".  Of every
\* keyword list and every regular
\* expression the alternatives that hold another CJK character can match no
\* modelled text and are left out of the tables.

\* EntityExtractor.entity_keywords, flattened in iteration order.
entity_keywords ==
  << [type |-> "vertex",   keyword |-> "vertex"],
     [type |-> "vertex",   keyword |-> "point"],
     [type |-> "edge",     keyword |-> "edge"],
     [type |-> "face",     keyword |-> "face"],
     [type |-> "face",     keyword |-> "surface"],
     [type |-> "hole",     keyword |-> "("],
     [type |-> "hole",     keyword |-> ")"],
     [type |-> "hole",     keyword |-> "hole"],
     [type |-> "hole",     keyword |-> "opening"],
     [type |-> "cylinder", keyword |-> "cylinder"],
     [type |-> "cylinder", keyword |-> "cylindrical"],
     [type |-> "plane",    keyword |-> "plate"],
     [type |-> "plane",    keyword |-> "plane"],
     [type |-> "plane",    keyword |-> "flat"],
     [type |-> "sphere",   keyword |-> "sphere"],
     [type |-> "sphere",   keyword |-> "spherical"] >>

\* IntentClassifier.intent_patterns: per intent, its regular expressions, each
\* an alternation of literals (the set of its alternatives).
intent_patterns ==
  [ query |->
      << {"<>"},
         {"measure", "show", "display", "what is", "how many", "how big",
          "how long", "how wide", "how tall", "volume", "area", "perimeter"},
         {"analyze", "check", "detect", "inspect"} >>,
    operation |->
      << {"highlight", "select", "mark", "identify"},
         {"rotate", "move", "scale", "translate"},
         {"compare", "contrast"} >>,
    modification |->
      << {"modify", "edit", "change", "adjust", "alter"},
         {"add", "remove", "delete", "create"},
         {"improve", "optimize", "enhance"} >> ]

\* A pattern table in which QueryType.MODIFICATION has a pattern too.
query_type_patterns_with_modification ==
  [ measurement |->
      << {"measure", "distance", "length", "width", "height", "diameter",
          "radius", "angle"},
         {"volume", "area", "surface area", "perimeter"} >>,
    feature_detection |->
      << {"feature", "()", "hole", "cylinder", "plane", "sphere"},
         {"detect", "identify", "find", "locate"} >>,
    topology_check |->
      << {"topology", "manifold", "watertight", "self-intersection"},
         {"check", "verify", "validate"} >>,
    selection |->
      << {"select", "highlight", "mark"},
         {"[]", "all", "every"} >>,
    modification |-> << {"modify", "edit", "change", "adjust", "alter"} >> ]

\* IntentClassifier.query_type_patterns (QueryType.MODIFICATION has none).
query_type_patterns ==
  [ measurement |->
      << {"measure", "distance", "length", "width", "height", "diameter",
          "radius", "angle"},
         {"volume", "area", "surface area", "perimeter"} >>,
    feature_detection |->
      << {"feature", "()", "hole", "cylinder", "plane", "sphere"},
         {"detect", "identify", "find", "locate"} >>,
    topology_check |->
      << {"topology", "manifold", "watertight", "self-intersection"},
         {"check", "verify", "validate"} >>,
    selection |->
      << {"select", "highlight", "mark"},
         {"[]", "all", "every"} >>,
    modification |-> << >> ]

\* re.search(pattern, text) for an alternation of literals.
re_search(pattern, text) == \E lit \in pattern : Contains(text, lit)

\* The score loop of classify_intent / classify_query_type: how many of the
\* patterns match the text.
score(patterns, text) ==
  Cardinality({k \in 1..Len(patterns) : re_search(patterns[k], text)})

\* max(...) that keeps the last of the keys sharing the largest score.
last_max(order, scores) ==
  LET best == CHOOSE i \in 1..Len(order) :
                /\ \A j \in 1..Len(order) : scores[order[j]] <= scores[order[i]]
                /\ \A j \in (i + 1)..Len(order) : scores[order[j]] < scores[order[i]]
  IN order[best]

\* max(scores.items(), key=lambda x: x[1])[0]: the first key, in the dict's
\* insertion order, whose score is the largest.
first_max(order, scores) ==
  LET best == CHOOSE i \in 1..Len(order) :
                /\ \A j \in 1..Len(order) : scores[order[j]] <= scores[order[i]]
                /\ \A j \in 1..(i - 1) : scores[order[j]] < scores[order[i]]
  IN order[best]

\* The score table of classify_intent.
intent_scores_of(text_lower) ==
  [intent \in {AnalysisIntent[i] : i \in 1..Len(AnalysisIntent)} |->
     score(intent_patterns[intent], text_lower)]

\* IntentClassifier.classify_intent
classify_intent(text) == first_max(AnalysisIntent, intent_scores_of(lower(text)))

\* The last line of classify_query_type: the default for a zero best score.
best_or_measurement(type_scores, best_type) ==
  IF type_scores[best_type] > 0 THEN best_type ELSE "measurement"

\* A score table that counts the first pattern of every query type only.
type_scores_first_pattern_only(text_lower) ==
  [qtype \in {QueryType[i] : i \in 1..Len(QueryType)} |->
     IF query_type_patterns[qtype] # <<>>
        /\ re_search(query_type_patterns[qtype][1], text_lower)
     THEN 1 ELSE 0]

\* The score table of classify_query_type.
type_scores_of(text_lower) ==
  [qtype \in {QueryType[i] : i \in 1..Len(QueryType)} |->
     score(query_type_patterns[qtype], text_lower)]

\* IntentClassifier.classify_query_type
classify_query_type(text) ==
  best_or_measurement(type_scores_of(lower(text)),
                      first_max(QueryType, type_scores_of(lower(text))))

\* The entities left in the order of the keyword table.
in_keyword_order(entities) == entities

\* sorted(entities, key=position): stable insertion into a sorted sequence.
RECURSIVE sorted_by_position(_)
sorted_by_position(entities) ==
  IF entities = <<>> THEN <<>>
  ELSE LET rest == sorted_by_position(SubSeq(entities, 1, Len(entities) - 1))
           e == entities[Len(entities)]
           k == Cardinality({i \in 1..Len(rest) : rest[i].position <= e.position})
       IN SubSeq(rest, 1, k) \o <<e>> \o SubSeq(rest, k + 1, Len(rest))

\* The entities of the keywords that hit, in keyword order, each at the first
\* offset of its keyword.
entities_of(text_lower, hits) ==
  [i \in 1..Len(hits) |->
     [type |-> hits[i].type, keyword |-> hits[i].keyword,
      position |-> IndexOf(text_lower, lower(hits[i].keyword))]]

\* The keywords of entity_keywords that occur in the text.
keyword_hits(text_lower) ==
  LET hit(e) == Contains(text_lower, lower(e.keyword))
  IN SelectSeq(entity_keywords, hit)

\* EntityExtractor.extract_entities
extract_entities(text) ==
  sorted_by_position(entities_of(lower(text), keyword_hits(lower(text))))

\* ------------------------------------------- nlp_engine.py / constraints
\* Numbers are carried in hundredths of a millimetre, so that the factor 25.4
\* stays exact on the modelled texts (at most one fractional digit).

Char(text, i) == SubSeq(text, i, i)

Digits == <<"0", "1", "2", "3", "4", "5", "6", "7", "8", "9">>

IsDigit(c) == \E d \in 1..Len(Digits) : Digits[d] = c

DigitValue(c) == (CHOOSE d \in 1..Len(Digits) : Digits[d] = c) - 1

\* The character class [\d.]
IsNumChar(c) == IsDigit(c) \/ c = "."

\* \s (the blank is the only white space of the modelled texts)
IsSpace(c) == c = " "

\* The unit alternation of the regular expressions, in the order the regex
\* engine tries it.
unit_alternation == <<"mm", "%@", "cm", "@", "m", "&$", "inch", "in">>

\* The alternation of comparison words of the first regular expression.
comparison_alternation == <<"}~", "}~=~", "{~", "{~=~", "=~", "!{~", "!}~">>

\* The three regular expressions of extract_numerical_constraints, as the
\* source writes them.
comparison_pattern ==
  "(}~|}~=~|{~|{~=~|=~|!{~|!}~)\\s*([\\d.]+)\\s*(mm|%@|cm|@|m|&$|inch|in)?"

range_pattern == "([\\d.]+)\\s*^\\s*([\\d.]+)\\s*(mm|%@|cm|@|m|&$|inch|in)?"

simple_pattern == "([\\d.]+)\\s*(mm|%@|cm|@|m|&$|inch|in)"

\* A group that took no part in the match (None in match.groups()).
NoGroup == ""

\* A conversion table that lacks the short token "in".
unit_conversion_without_in ==
  ("mm" :> 10) @@ ("%@" :> 100) @@ ("cm" :> 100) @@ ("@" :> 10000)
  @@ ("m" :> 10000) @@ ("&$" :> 254) @@ ("inch" :> 254)

\* EntityExtractor.unit_conversion, in tenths.
unit_conversion ==
  ("mm" :> 10) @@ ("%@" :> 100) @@ ("cm" :> 100) @@ ("@" :> 10000)
  @@ ("m" :> 10000) @@ ("&$" :> 254) @@ ("inch" :> 254) @@ ("in" :> 254)

\* EntityExtractor.normalize_units; None (no unit group) and unknown units
\* leave the value unchanged.
normalize_units(value, unit) ==
  IF unit \in DOMAIN unit_conversion
  THEN (value * unit_conversion[unit]) \div 10
  ELSE value

\* int() of a string of digits.
RECURSIVE DigitsValue(_)
DigitsValue(s) ==
  IF s = "" THEN 0
  ELSE DigitsValue(SubSeq(s, 1, Len(s) - 1)) * 10 + DigitValue(Char(s, Len(s)))

\* float() of a string matched by [\d.]+ : ValueError unless it holds at most
\* one dot and at least one digit.  The value is in hundredths.
float(s) ==
  LET dots == {i \in 1..Len(s) : Char(s, i) = "."}
  IN IF Cardinality(dots) > 1 \/ Len(s) = Cardinality(dots)
     THEN [raised |-> TRUE, value |-> 0]
     ELSE IF dots = {}
     THEN [raised |-> FALSE, value |-> DigitsValue(s) * 100]
     ELSE LET d == CHOOSE i \in dots : TRUE
              whole == SubSeq(s, 1, d - 1)
              frac == SubSeq(s, d + 1, Len(s))
              tenths == IF frac = "" THEN 0 ELSE DigitValue(Char(frac, 1))
          IN [raised |-> FALSE, value |-> DigitsValue(whole) * 100 + tenths * 10]

\* Where the greedy run of [\d.] that starts at i ends (i - 1 when the run is
\* empty).
NumRunEnd(text, i) ==
  CHOOSE j \in (i - 1)..Len(text) :
    /\ \A k \in i..j : IsNumChar(Char(text, k))
    /\ (j = Len(text) \/ ~IsNumChar(Char(text, j + 1)))

\* The same for the run of white space that \s* takes.
SpaceRunEnd(text, i) ==
  CHOOSE j \in (i - 1)..Len(text) :
    /\ \A k \in i..j : IsSpace(Char(text, k))
    /\ (j = Len(text) \/ ~IsSpace(Char(text, j + 1)))

\* The first unit of the alternation that the text continues with at p, or
\* "" when none does.
UnitAt(text, p) ==
  LET fits(k) == /\ p + Len(unit_alternation[k]) - 1 <= Len(text)
                 /\ SubSeq(text, p, p + Len(unit_alternation[k]) - 1) = unit_alternation[k]
  IN IF \E k \in 1..Len(unit_alternation) : fits(k)
     THEN unit_alternation[CHOOSE k \in 1..Len(unit_alternation) :
                             fits(k) /\ \A j \in 1..(k - 1) : ~fits(j)]
     ELSE ""

\* re.finditer of the third pattern, ([\d.]+)\s*(unit): a match starts where a
\* run of [\d.] starts and needs a unit after the run and optional blanks
\* (giving back characters of the run or of the blanks never helps, since no
\* unit and no range word starts with one of them).  Matches in text order.
RECURSIVE simple_matches(_, _)
simple_matches(text, from) ==
  IF from > Len(text) THEN <<>>
  ELSE IF ~IsNumChar(Char(text, from)) THEN simple_matches(text, from + 1)
  ELSE LET e == NumRunEnd(text, from)
           w == SpaceRunEnd(text, e + 1)
           unit == UnitAt(text, w + 1)
       IN IF unit = "" THEN simple_matches(text, e + 1)
          ELSE << [pattern |-> simple_pattern,
                   match |-> SubSeq(text, from, w + Len(unit)),
                   groups |-> <<SubSeq(text, from, e), unit>>] >>
               \o simple_matches(text, w + Len(unit) + 1)

\* The number, the blanks and the optional unit that end a match of the first
\* two patterns, the number starting at n: the constraint and where it ends.
number_and_unit(text, from, first_groups, pattern, n) ==
  LET e == NumRunEnd(text, n)
      w == SpaceRunEnd(text, e + 1)
      unit == UnitAt(text, w + 1)
  IN [found |-> TRUE,
      end |-> w + Len(unit),
      constraint |->
        [pattern |-> pattern,
         match |-> SubSeq(text, from, w + Len(unit)),
         groups |-> first_groups
                    \o <<SubSeq(text, n, e), IF unit = "" THEN NoGroup ELSE unit>>]]

\* The match of the first pattern that starts at p, if there is one: the first
\* comparison word of the alternation that stands at p and has a number after
\* optional blanks.
comparison_match_at(text, p) ==
  LET number_after(k) == SpaceRunEnd(text, p + Len(comparison_alternation[k])) + 1
      fits(k) ==
        /\ p + Len(comparison_alternation[k]) - 1 <= Len(text)
        /\ SubSeq(text, p, p + Len(comparison_alternation[k]) - 1)
             = comparison_alternation[k]
        /\ number_after(k) <= Len(text)
        /\ IsNumChar(Char(text, number_after(k)))
  IN IF \E k \in 1..Len(comparison_alternation) : fits(k)
     THEN LET k == CHOOSE k \in 1..Len(comparison_alternation) :
                     fits(k) /\ \A j \in 1..(k - 1) : ~fits(j)
          IN number_and_unit(text, p, <<comparison_alternation[k]>>,
                             comparison_pattern, number_after(k))
     ELSE [found |-> FALSE]

\* The match of the second pattern that starts at p, if there is one: a number,
\* the range word and a second number, with optional blanks between them.
range_match_at(text, p) ==
  LET e == NumRunEnd(text, p)
      word == SpaceRunEnd(text, e + 1) + 1
      second == SpaceRunEnd(text, word + 1) + 1
  IN IF /\ IsNumChar(Char(text, p))
        /\ word <= Len(text)
        /\ Char(text, word) = "^"
        /\ second <= Len(text)
        /\ IsNumChar(Char(text, second))
     THEN number_and_unit(text, p, <<SubSeq(text, p, e)>>, range_pattern, second)
     ELSE [found |-> FALSE]

\* re.finditer of the first and of the second pattern: the search goes on
\* behind a match, and one character further where none starts.
RECURSIVE comparison_matches(_, _)
RECURSIVE range_matches(_, _)
comparison_next(text, from, m) ==
  IF m.found
  THEN <<m.constraint>> \o comparison_matches(text, m.end + 1)
  ELSE comparison_matches(text, from + 1)

comparison_matches(text, from) ==
  IF from > Len(text) THEN <<>>
  ELSE comparison_next(text, from, comparison_match_at(text, from))

range_next(text, from, m) ==
  IF m.found
  THEN <<m.constraint>> \o range_matches(text, m.end + 1)
  ELSE range_matches(text, from + 1)

range_matches(text, from) ==
  IF from > Len(text) THEN <<>>
  ELSE range_next(text, from, range_match_at(text, from))

\* EntityExtractor.extract_numerical_constraints: the matches of the three
\* patterns, pattern by pattern.
extract_numerical_constraints(text) ==
  comparison_matches(text, 1) \o range_matches(text, 1) \o simple_matches(text, 1)

\* parameters[key] = value
set_parameter(parameters, key, value) ==
  [k \in DOMAIN parameters \cup {key} |->
     IF k = key THEN value ELSE parameters[k]]

\* A branch of _parse_constraints that stores one value: float() of the group,
\* normalized, under the key of the branch.
store_value(before, key, value, unit) ==
  IF value.raised
  THEN [raised |-> TRUE, parameters |-> <<>>]
  ELSE [raised |-> FALSE,
        parameters |-> set_parameter(before.parameters, key,
                                     normalize_units(value.value, unit))]

\* The range branch of _parse_constraints: min_value and max_value.
store_range(before, min_val, max_val, unit) ==
  IF min_val.raised \/ max_val.raised
  THEN [raised |-> TRUE, parameters |-> <<>>]
  ELSE [raised |-> FALSE,
        parameters |->
          set_parameter(
            set_parameter(before.parameters, "min_value",
                          normalize_units(min_val.value, unit)),
            "max_value", normalize_units(max_val.value, unit))]

\* One round of the loop of _parse_constraints: the branch is chosen by what
\* the text of the regular expression holds, then by the number of groups.
parse_constraint(before, pattern, groups) ==
  IF before.raised THEN before
  ELSE IF Contains(pattern, "}~") \/ Contains(pattern, ">")
  THEN store_value(before, "min_value", float(groups[2]),
                   IF Len(groups) > 2 THEN groups[3] ELSE "mm")
  ELSE IF Contains(pattern, "{~") \/ Contains(pattern, "<")
  THEN store_value(before, "max_value", float(groups[2]),
                   IF Len(groups) > 2 THEN groups[3] ELSE "mm")
  ELSE IF Contains(pattern, "^") \/ Contains(pattern, "-")
  THEN store_range(before, float(groups[1]), float(groups[2]),
                   IF Len(groups) > 2 THEN groups[3] ELSE "mm")
  ELSE IF Len(groups) >= 2
  THEN store_value(before, "target_value", float(groups[1]), groups[2])
  ELSE before

\* QueryParser._parse_constraints: the loop over the constraints, later
\* matches overwriting earlier ones; float() raising ends the parse.
RECURSIVE _parse_constraints(_)
_parse_constraints(constraints) ==
  IF constraints = <<>> THEN [raised |-> FALSE, parameters |-> <<>>]
  ELSE parse_constraint(
         _parse_constraints(SubSeq(constraints, 1, Len(constraints) - 1)),
         constraints[Len(constraints)].pattern,
         constraints[Len(constraints)].groups)

\* _validate_query that asks a modification for an entity only.
_validate_query_entities_only(intent, entities, parameters) ==
  IF intent = "query" THEN TRUE
  ELSE IF intent = "operation" THEN Len(entities) > 0
  ELSE IF intent = "modification" THEN Len(entities) > 0
  ELSE FALSE

\* QueryParser._validate_query
_validate_query(intent, entities, parameters) ==
  IF intent = "query" THEN TRUE
  ELSE IF intent = "operation" THEN Len(entities) > 0
  ELSE IF intent = "modification"
  THEN Len(entities) > 0 /\ DOMAIN parameters # {}
  ELSE FALSE

\* The dict parse_query returns, from the values its statements computed.
parsed_query_dict(text, intent, query_type, entities, parsed) ==
  IF parsed.raised
  THEN [raised |-> TRUE]
  ELSE [raised |-> FALSE,
        original_text |-> text,
        intent |-> intent,
        query_type |-> query_type,
        entities |-> entities,
        parameters |-> parsed.parameters,
        is_valid |-> _validate_query(intent, entities, parsed.parameters)]

\* QueryParser.parse_query; raised when float() raised ValueError.
parse_query(text) ==
  parsed_query_dict(text,
                    classify_intent(text),
                    classify_query_type(text),
                    extract_entities(text),
                    _parse_constraints(extract_numerical_constraints(text)))

\* ------------------------------------------------------------------ state

VARIABLES
  agent,             \* the class of the agent object under test
  model_cache,       \* self.model_cache: model id -> record
  current_state_id,  \* self.current_state_id
  uuid_count,        \* how many uuid4() values have been drawn
  past_state_ids,    \* history: the tokens that were current and were replaced
  released,          \* history: the model ids cleanup_model has removed
  op,                \* the method the last call invoked
  args,              \* its arguments
  ret,               \* what it returned (or that it raised)
  trace,             \* the stages and collaborators it invoked, in order
  wrapper_current_state_id,
                     \* NLMeshInspectAgent.current_state_id, the attribute of
                     \* the compatibility layer around the agent object
  handlers           \* api/main.py: the request handlers in flight on the
                     \* event loop, caller -> [route, pc]

vars ==
  <<agent, model_cache, current_state_id, uuid_count, past_state_ids, released,
    op, args, ret, trace, wrapper_current_state_id, handlers>>

registry == <<model_cache, current_state_id>>

\* The two agent classes.
LangGraphNLMeshAgent == "LangGraphNLMeshAgent"

LLMNLMeshAgent == "LLMNLMeshAgent"

\* ----------------------------------------------------------------- inputs

\* The empty string as a model id or state id.
EmptyId == 0

\* A string that is not a uuid ("ghost", "old-state-id").
OtherId == MaxUuid + 1

\* The model_id / state_id values a caller may send.
Ids == {EmptyId} \cup (1..MaxUuid) \cup {OtherId}

\* natural_language_query values a caller may send.
Texts ==
  { "", "Measure Volume", "select all holes", "highlight it", "check topology",
    "detect holes 5 meters", "modify hole", "edit 1.2.3mm face" }

\* Uploaded file names and formats ("txt" is no ModelFormat).
FileNames == {"a.stl", "b.stl"}

FileFormats == {"stl", "txt"}

\* models.ModelFormat
ModelFormat == {"stl", "obj", "ply", "step"}

\* parse_query is a pure function of the text: its value on every modelled
\* text, evaluated once.
parse_query_of == [text \in Texts |-> parse_query(text)]

\* AnalysisRequest as the callers build it (parameters defaults to {}).
AnalysisRequest(model_id, natural_language_query, state_id) ==
  [model_id |-> model_id, natural_language_query |-> natural_language_query,
   parameters |-> <<>>, state_id |-> state_id]

\* The tool-selection answers of llm_with_tools.invoke: it raises, or returns
\* a message with these tool calls.
LLMResponses ==
  { [raises |-> TRUE, tool_calls |-> <<>>],
    [raises |-> FALSE, tool_calls |-> <<>>],
    [raises |-> FALSE, tool_calls |-> <<[name |-> "MeasureVolumeTool", id |-> 1]>>],
    [raises |-> FALSE,
     tool_calls |-> <<[name |-> "DetectHolesTool", id |-> 1],
                      [name |-> "CheckTopologyTool", id |-> 2]>>] }

\* -------------------------------------------------------------- primitives

\* uuid.uuid4() as the (n+1)-th value drawn: never a value drawn before.
uuid4(n) == n + 1

\* models.AnalysisResult
AnalysisResult(success, result_type, data, message, features, execution_time, state_id) ==
  [kind |-> "AnalysisResult", success |-> success, result_type |-> result_type,
   data |-> data, message |-> message, features |-> features,
   execution_time |-> execution_time, state_id |-> state_id]

\* Python's None, and an exception leaving the called method.
None == [kind |-> "None"]

Raised == [kind |-> "raised"]

\* ------------------------------------------------ tools.py / the mesh engine
\* What a GeometryAnalyzer method meets when it is called: the module-level
\* optional import of trimesh failed ("missing"), or trimesh is there and the
\* mesh attribute the method reads raises ("raising") or returns ("working").
MeshEngine == {"missing", "raising", "working"}

\* Every GeometryAnalyzer method raises ImportError when trimesh is missing;
\* with it, the method's own try/except swallows what the mesh raises and
\* returns a value in its place.  "swallowed" in the trace marks that.

\* GeometryAnalyzer.measure_volume
measure_volume(engine) ==
  IF engine = "missing" THEN [raised |-> TRUE, trace |-> <<"measure_volume">>]
  ELSE IF engine = "raising"
  THEN [raised |-> FALSE, value |-> "0.0",
        trace |-> <<"measure_volume", "swallowed">>]
  ELSE [raised |-> FALSE, value |-> "mesh.volume", trace |-> <<"measure_volume">>]

\* GeometryAnalyzer.measure_surface_area
measure_surface_area(engine) ==
  IF engine = "missing"
  THEN [raised |-> TRUE, trace |-> <<"measure_surface_area">>]
  ELSE IF engine = "raising"
  THEN [raised |-> FALSE, value |-> "0.0",
        trace |-> <<"measure_surface_area", "swallowed">>]
  ELSE [raised |-> FALSE, value |-> "mesh.area",
        trace |-> <<"measure_surface_area">>]

\* GeometryAnalyzer.detect_features: the three detectors return no feature;
\* when the mesh raises the list collected so far is returned.
detect_features(engine) ==
  IF engine = "missing" THEN [raised |-> TRUE, trace |-> <<"detect_features">>]
  ELSE IF engine = "raising"
  THEN [raised |-> FALSE, value |-> <<>>,
        trace |-> <<"detect_features", "swallowed">>]
  ELSE [raised |-> FALSE, value |-> <<>>, trace |-> <<"detect_features">>]

\* GeometryAnalyzer.check_topology: when the mesh raises, a result with all
\* three flags False and the failure as its only issue.
check_topology(engine) ==
  IF engine = "missing" THEN [raised |-> TRUE, trace |-> <<"check_topology">>]
  ELSE IF engine = "raising"
  THEN [raised |-> FALSE,
        value |-> [kind |-> "TopologyCheckResult", is_manifold |-> FALSE,
                   has_self_intersections |-> FALSE, is_watertight |-> FALSE,
                   issues |-> <<"topology check failed: str(e)">>],
        trace |-> <<"check_topology", "swallowed">>]
  ELSE [raised |-> FALSE,
        value |-> [kind |-> "TopologyCheckResult", is_manifold |-> TRUE,
                   has_self_intersections |-> FALSE, is_watertight |-> TRUE,
                   issues |-> <<>>],
        trace |-> <<"check_topology">>]

\* ------------------------------------------ langgraph_agent.py / analysis
\* An operator that stands for a method returns [raised, value, trace]: whether
\* an exception left it, what it returned, and what it invoked.

\* LangGraphNLMeshAgent._perform_measurement
_perform_measurement(engine) ==
  LET volume == measure_volume(engine)
      area == measure_surface_area(engine)
  IN IF volume.raised
     THEN [raised |-> TRUE, trace |-> volume.trace]
     ELSE IF area.raised
     THEN [raised |-> TRUE, trace |-> volume.trace \o area.trace]
     ELSE [raised |-> FALSE,
           value |-> [measurements |->
                        [volume |-> volume.value, surface_area |-> area.value]],
           trace |-> volume.trace \o area.trace]

\* LangGraphNLMeshAgent._filter_features_by_parameters
_filter_features_by_parameters(features, parameters) == features

\* LangGraphNLMeshAgent._perform_feature_detection
_perform_feature_detection(parameters, engine) ==
  LET features == detect_features(engine)
  IN IF features.raised
     THEN [raised |-> TRUE, trace |-> features.trace]
     ELSE LET filtered_features ==
                _filter_features_by_parameters(features.value, parameters)
          IN [raised |-> FALSE,
              value |-> [features |-> filtered_features,
                         total_features |-> Len(features.value),
                         filtered_features |-> Len(filtered_features)],
              trace |-> features.trace]

\* LangGraphNLMeshAgent._perform_topology_check
_perform_topology_check(engine) ==
  LET topology_result == check_topology(engine)
  IN IF topology_result.raised
     THEN [raised |-> TRUE, trace |-> topology_result.trace]
     ELSE [raised |-> FALSE,
           value |-> [topology |-> topology_result.value],
           trace |-> topology_result.trace]

\* LangGraphNLMeshAgent._perform_selection: a fixed index list.
_perform_selection(entities, parameters) ==
  [raised |-> FALSE,
   value |-> [selected_indices |-> <<0, 1, 2>>, selected_count |-> 3],
   trace |-> <<"_perform_selection">>]

\* dict.update: the keys of b added to (or replacing those of) a.
dict_update(a, b) ==
  [k \in DOMAIN a \cup DOMAIN b |-> IF k \in DOMAIN b THEN b[k] ELSE a[k]]

\* The if/elif chain closed by an else that raises for a query type that has
\* no _perform_* method.
perform_by_query_type_or_raise(query_type, entities, parameters, engine) ==
  IF query_type = "measurement" THEN _perform_measurement(engine)
  ELSE IF query_type = "feature_detection"
  THEN _perform_feature_detection(parameters, engine)
  ELSE IF query_type = "topology_check" THEN _perform_topology_check(engine)
  ELSE IF query_type = "selection" THEN _perform_selection(entities, parameters)
  ELSE [raised |-> TRUE, trace |-> <<>>]

\* The if/elif chain of _execute_specific_analysis: the _perform_* method of
\* the query type, none for "modification".
perform_by_query_type(query_type, entities, parameters, engine) ==
  IF query_type = "measurement" THEN _perform_measurement(engine)
  ELSE IF query_type = "feature_detection"
  THEN _perform_feature_detection(parameters, engine)
  ELSE IF query_type = "topology_check" THEN _perform_topology_check(engine)
  ELSE IF query_type = "selection" THEN _perform_selection(entities, parameters)
  ELSE [raised |-> FALSE, value |-> <<>>, trace |-> <<>>]

\* result_data.update(...) with what the _perform_* method returned.
result_data_update(result_data, performed) ==
  IF performed.raised
  THEN [raised |-> TRUE, trace |-> performed.trace]
  ELSE [raised |-> FALSE, value |-> dict_update(result_data, performed.value),
        trace |-> performed.trace]

\* LangGraphNLMeshAgent._execute_specific_analysis
_execute_specific_analysis(parsed_query, parameters, engine) ==
  result_data_update(
    [query_type |-> parsed_query.query_type, entities |-> parsed_query.entities,
     parameters |-> parameters],
    perform_by_query_type(parsed_query.query_type, parsed_query.entities,
                          parameters, engine))

\* LangGraphNLMeshAgent._generate_response_message (the template it renders).
_generate_response_message(parsed_query, result_data) ==
  LET query_type == parsed_query.query_type
  IN IF query_type = "measurement"
        /\ "measurements" \in DOMAIN result_data
        /\ "volume" \in DOMAIN result_data.measurements
     THEN "ResponseTemplates.measurement_result"
     ELSE IF query_type = "feature_detection"
     THEN "ResponseTemplates.feature_detection_result"
     ELSE IF query_type = "topology_check"
     THEN "ResponseTemplates.topology_check_result"
     ELSE IF query_type = "selection"
     THEN "ResponseTemplates.selection_result"
     ELSE "analysis done"

\* The end of the try block of analyze_model: the success result built from
\* what _execute_specific_analysis returned.
analyze_executed(parsed_query, executed) ==
  IF executed.raised
  THEN [raised |-> TRUE,
        trace |-> <<"model_cache", "parse_query">> \o executed.trace]
  ELSE [raised |-> FALSE,
        value |-> AnalysisResult(TRUE, parsed_query.query_type,
                    executed.value,
                    _generate_response_message(parsed_query, executed.value),
                    IF "features" \in DOMAIN executed.value
                    THEN executed.value.features ELSE <<>>,
                    "measured", current_state_id),
        trace |-> <<"model_cache", "parse_query">> \o executed.trace]

\* analyze_parsed without the check of is_valid: the analysis runs on
\* whatever the parser returned.
analyze_parsed_unchecked(request, parsed_query, engine) ==
  IF parsed_query.raised
  THEN [raised |-> TRUE, trace |-> <<"model_cache", "parse_query">>]
  ELSE analyze_executed(parsed_query,
         _execute_specific_analysis(parsed_query, request.parameters, engine))

\* The try block of analyze_model from the return of parse_query on: the
\* validity check, then the analysis.
analyze_parsed(request, parsed_query, engine) ==
  IF parsed_query.raised
  THEN [raised |-> TRUE, trace |-> <<"model_cache", "parse_query">>]
  ELSE IF ~parsed_query.is_valid
  THEN [raised |-> FALSE,
        value |-> AnalysisResult(FALSE, "invalid_query",
                    [parsed_query |-> parsed_query],
                    "query not understood", <<>>, "0.0", current_state_id),
        trace |-> <<"model_cache", "parse_query">>]
  ELSE analyze_executed(parsed_query,
         _execute_specific_analysis(parsed_query, request.parameters, engine))

\* The body of the try block of LangGraphNLMeshAgent.analyze_model.
LangGraph_analyze_try(request, engine) ==
  IF request.state_id # current_state_id
  THEN [raised |-> FALSE,
        value |-> AnalysisResult(FALSE, "state_conflict",
                    [expected_state |-> current_state_id],
                    "state id mismatch", <<>>, "0.0", current_state_id),
        trace |-> <<>>]
  ELSE IF request.model_id \notin DOMAIN model_cache
  THEN [raised |-> FALSE,
        value |-> AnalysisResult(FALSE, "model_not_found",
                    [model_id |-> request.model_id],
                    "model not found", <<>>, "0.0", current_state_id),
        trace |-> <<"model_cache">>]
  ELSE analyze_parsed(request, parse_query_of[request.natural_language_query],
                      engine)

\* analyze_model without its except clause: an exception of the try block
\* leaves the method.
analyze_reraise(tried) == tried

\* The except clause of analyze_model: every exception of the try block
\* becomes an analysis_error result.
analyze_except(tried) ==
  IF tried.raised
  THEN [raised |-> FALSE,
        value |-> AnalysisResult(FALSE, "analysis_error", [error |-> "str(e)"],
                    "error during analysis", <<>>, "measured", current_state_id),
        trace |-> tried.trace \o <<"except">>]
  ELSE tried

\* LangGraphNLMeshAgent.analyze_model
LangGraph_analyze_model(request, engine) ==
  analyze_except(LangGraph_analyze_try(request, engine))

\* ------------------------------------------------ llm_agent.py / workflow
\* AgentState is a record; its key "error" is "" while the key is absent, and
\* "invoked" is the model's own record of what the nodes invoked.  A message is
\* a dict (type "dict", which has no attribute tool_calls) or an AIMessage.

\* llm_config.execute_tool: the result of the named tool, or an error entry.
execute_tool(tool_name) ==
  IF tool_name = "MeasureVolumeTool" THEN [tool |-> "measure_volume"]
  ELSE IF tool_name = "MeasureSurfaceAreaTool" THEN [tool |-> "measure_surface_area"]
  ELSE IF tool_name = "DetectHolesTool" THEN [tool |-> "detect_holes"]
  ELSE IF tool_name = "DetectFacesTool" THEN [tool |-> "detect_faces"]
  ELSE IF tool_name = "CheckTopologyTool" THEN [tool |-> "check_topology"]
  ELSE IF tool_name = "AnalyzeConnectivityTool" THEN [tool |-> "analyze_connectivity"]
  ELSE [error |-> "unknown tool"]

\* LLMNLMeshAgent._should_handle_error
_should_handle_error(state) == IF state.error # "" THEN "error" ELSE "continue"

\* LLMNLMeshAgent._validate_input
_validate_input(state) ==
  LET request == state.request
      entered == [state EXCEPT !.invoked = @ \o <<"validate_input">>]
  IN IF request.state_id # current_state_id
     THEN [entered EXCEPT !.error = "state id mismatch"]
     ELSE IF request.model_id = EmptyId
     THEN [entered EXCEPT !.error = "missing model id"]
     ELSE IF request.natural_language_query = ""
     THEN [entered EXCEPT !.error = "missing natural language query"]
     ELSE entered

\* LLMNLMeshAgent._load_model
_load_model(state) ==
  LET request == state.request
      looked == [state EXCEPT !.invoked = @ \o <<"load_model", "model_cache">>]
  IN IF request.model_id \notin DOMAIN model_cache
     THEN [looked EXCEPT !.error = "model not found"]
     ELSE [looked EXCEPT !.mesh_data = model_cache[request.model_id]]

\* What trace keeps of the response of llm_with_tools.invoke: one entry per
\* tool call the response names, in the returned order.
returned_tool_calls(tool_calls) ==
  [i \in DOMAIN tool_calls |-> "returned " \o tool_calls[i].name]

\* LLMNLMeshAgent._llm_analysis: the response's content is kept in a dict
\* message; response.tool_calls is not copied.
_llm_analysis(state, response) ==
  LET system_message == [role |-> "system", type |-> "dict"]
      user_message == [role |-> "user", type |-> "dict"]
      asked == [state EXCEPT !.messages = <<system_message, user_message>>,
                             !.invoked = @ \o <<"llm_analysis", "llm_with_tools.invoke">>]
  IN IF response.raises
     THEN [asked EXCEPT !.error = "LLM analysis error"]
     ELSE [asked EXCEPT
             !.messages = @ \o <<[role |-> "assistant", type |-> "dict"]>>,
             !.tool_results = <<>>,
             !.invoked = @ \o returned_tool_calls(response.tool_calls)]

\* The loop of _execute_tools left after its first round.
run_tool_calls_first_only(state, tool_calls) ==
  IF tool_calls = <<>> THEN state
  ELSE [state EXCEPT
          !.tool_results = @ \o <<execute_tool(Head(tool_calls).name)>>,
          !.messages = @ \o <<[role |-> "tool", type |-> "dict",
                               tool_call_id |-> Head(tool_calls).id]>>,
          !.invoked = @ \o <<Head(tool_calls).name>>]

\* The for loop of _execute_tools over last_message.tool_calls.
RECURSIVE run_tool_calls(_, _)
run_tool_calls(state, tool_calls) ==
  IF tool_calls = <<>> THEN state
  ELSE LET tool_call == Head(tool_calls)
           result == execute_tool(tool_call.name)
       IN run_tool_calls(
            [state EXCEPT
               !.tool_results = @ \o <<result>>,
               !.messages = @ \o <<[role |-> "tool", type |-> "dict",
                                    tool_call_id |-> tool_call.id]>>,
               !.invoked = @ \o <<tool_call.name>>],
            Tail(tool_calls))

\* LLMNLMeshAgent._execute_tools
_execute_tools(state) ==
  LET entered == [state EXCEPT !.invoked = @ \o <<"execute_tools">>]
  IN IF state.messages = <<>>
     THEN [entered EXCEPT !.error = "no LLM response"]
     ELSE LET last_message == state.messages[Len(state.messages)]
          IN IF last_message.type = "AIMessage" /\ last_message.tool_calls # <<>>
             THEN run_tool_calls(entered, last_message.tool_calls)
             ELSE IF state.tool_results = <<>>
             THEN [entered EXCEPT
                     !.tool_results = @ \o <<execute_tool("MeasureVolumeTool"),
                                             execute_tool("CheckTopologyTool")>>,
                     !.invoked = @ \o <<"MeasureVolumeTool", "CheckTopologyTool">>]
             ELSE entered

\* LLMNLMeshAgent._generate_final_result
_generate_final_result(state) ==
  LET tool_results == state.tool_results
      result_data == [query |-> state.request.natural_language_query,
                      tool_results |-> tool_results,
                      tools_used |-> Len(tool_results)]
  IN [state EXCEPT
        !.final_result = AnalysisResult(TRUE, "llm_analysis", result_data,
                           "analysis done", <<>>, "0.0", current_state_id),
        !.invoked = @ \o <<"generate_final_result">>]

\* _handle_error that echoes the token the request presented instead of
\* reading the agent's own.
_handle_error_echoing_request(state) ==
  [state EXCEPT
     !.final_result = AnalysisResult(FALSE, "error", [error |-> state.error],
                        state.error, <<>>, "0.0", state.request.state_id),
     !.invoked = @ \o <<"handle_error">>]

\* LLMNLMeshAgent._handle_error
_handle_error(state) ==
  [state EXCEPT
     !.final_result = AnalysisResult(FALSE, "error", [error |-> state.error],
                        state.error, <<>>, "0.0", current_state_id),
     !.invoked = @ \o <<"handle_error">>]

\* The workflow routed by its static edges alone: every node runs whatever
\* error an earlier one set, and the error is looked at after execute_tools.
workflow_invoke_by_static_edges(initial_state, response) ==
  LET validated == _validate_input(initial_state)
      loaded == _load_model(validated)
      analysed == _llm_analysis(loaded, response)
      executed == _execute_tools(analysed)
  IN IF _should_handle_error(executed) = "error" THEN _handle_error(executed)
     ELSE _generate_final_result(executed)

\* The compiled workflow of _build_workflow, routed by its conditional edges:
\* after each of the first four nodes _should_handle_error sends the state to
\* handle_error or to the next node (the node the static edge names too);
\* generate_final_result and handle_error go to END.
workflow_invoke(initial_state, response) ==
  LET validated == _validate_input(initial_state)
      loaded == _load_model(validated)
      analysed == _llm_analysis(loaded, response)
      executed == _execute_tools(analysed)
  IN IF _should_handle_error(validated) = "error" THEN _handle_error(validated)
     ELSE IF _should_handle_error(loaded) = "error" THEN _handle_error(loaded)
     ELSE IF _should_handle_error(analysed) = "error" THEN _handle_error(analysed)
     ELSE IF _should_handle_error(executed) = "error" THEN _handle_error(executed)
     ELSE _generate_final_result(executed)

\* LLMNLMeshAgent.analyze_model
LLM_analyze_model(request, response) ==
  LET initial_state == [request |-> request, messages |-> <<>>, mesh_data |-> <<>>,
                        tool_results |-> <<>>, final_result |-> None,
                        error |-> "", invoked |-> <<>>]
      final_state == workflow_invoke(initial_state, response)
      final_result == final_state.final_result
  IN [raised |-> FALSE,
      value |-> IF final_result # None
                THEN [final_result EXCEPT !.execution_time = "measured"]
                ELSE final_result,
      trace |-> final_state.invoked]

\* ------------------------------------------------------------- operations
\* Each operation is one method call on the agent object: it sets op, args,
\* ret and trace, and changes the fields of the object that the method assigns.

\* The record process_upload stores in model_cache.
cache_entry(model_id, filename, file_format, file_path) ==
  [mesh |-> "mesh",
   model_info |-> [model_id |-> model_id, file_name |-> filename,
                   file_format |-> file_format],
   topology_result |-> "TopologyCheckResult",
   file_path |-> file_path]

\* model_cache[model_id] = entry
cache_store(cache, model_id, entry) == (model_id :> entry) @@ cache

\* del model_cache[model_id]
cache_delete(cache, model_id) == [k \in DOMAIN cache \ {model_id} |-> cache[k]]

\* process_upload that builds its return value before it renews the token.
LangGraph_process_upload_old_token(filename, file_format, processed) ==
  /\ op' = "process_upload"
  /\ args' = [filename |-> filename, file_format |-> file_format]
  /\ trace' = <<>>
  /\ IF processed
     THEN LET model_id == uuid4(uuid_count)
          IN /\ model_cache' =
                  cache_store(model_cache, model_id,
                    cache_entry(model_id, filename, file_format, "uploads/" \o filename))
             /\ current_state_id' = uuid4(uuid_count + 1)
             /\ uuid_count' = uuid_count + 2
             /\ ret' = [kind |-> "dict", success |-> TRUE, model_id |-> model_id,
                        state_id |-> current_state_id]
     ELSE /\ UNCHANGED <<model_cache, current_state_id, uuid_count>>
          /\ ret' = [kind |-> "dict", success |-> FALSE, error |-> "str(e)",
                     state_id |-> current_state_id]

\* process_upload whose except clause renews the state token before it
\* reports the failure.
LangGraph_process_upload_renewing_on_failure(filename, file_format, processed) ==
  /\ op' = "process_upload"
  /\ args' = [filename |-> filename, file_format |-> file_format]
  /\ trace' = <<>>
  /\ IF processed
     THEN LET model_id == uuid4(uuid_count)
          IN /\ model_cache' =
                  cache_store(model_cache, model_id,
                    cache_entry(model_id, filename, file_format, "uploads/" \o filename))
             /\ current_state_id' = uuid4(uuid_count + 1)
             /\ uuid_count' = uuid_count + 2
             /\ ret' = [kind |-> "dict", success |-> TRUE, model_id |-> model_id,
                        state_id |-> current_state_id']
     ELSE /\ current_state_id' = uuid4(uuid_count)
          /\ uuid_count' = uuid_count + 1
          /\ UNCHANGED model_cache
          /\ ret' = [kind |-> "dict", success |-> FALSE, error |-> "str(e)",
                     state_id |-> current_state_id']

\* LangGraphNLMeshAgent.process_upload; processed tells whether
\* save_uploaded_file and process_model returned (else one of them raised).
LangGraph_process_upload(filename, file_format, processed) ==
  /\ op' = "process_upload"
  /\ args' = [filename |-> filename, file_format |-> file_format]
  /\ trace' = <<>>
  /\ IF processed
     THEN LET model_id == uuid4(uuid_count)
          IN /\ model_cache' =
                  cache_store(model_cache, model_id,
                    cache_entry(model_id, filename, file_format, "uploads/" \o filename))
             /\ current_state_id' = uuid4(uuid_count + 1)
             /\ uuid_count' = uuid_count + 2
             /\ ret' = [kind |-> "dict", success |-> TRUE, model_id |-> model_id,
                        state_id |-> current_state_id']
     ELSE /\ UNCHANGED <<model_cache, current_state_id, uuid_count>>
          /\ ret' = [kind |-> "dict", success |-> FALSE, error |-> "str(e)",
                     state_id |-> current_state_id]

\* process_upload cut after its first assignment: the record is stored and
\* the method gives control away before it renews the token.
LLM_process_upload_suspended_after_store(filename, file_format) ==
  /\ op' = "process_upload"
  /\ args' = [filename |-> filename, file_format |-> file_format]
  /\ trace' = <<>>
  /\ LET model_id == uuid4(uuid_count)
     IN IF file_format \in ModelFormat
        THEN /\ model_cache' =
                  cache_store(model_cache, model_id,
                    cache_entry(model_id, filename, file_format, "/uploads/" \o filename))
             /\ current_state_id' = current_state_id
             /\ uuid_count' = uuid_count + 2
             /\ ret' = [kind |-> "dict", success |-> TRUE, model_id |-> model_id,
                        state_id |-> current_state_id']
        ELSE /\ UNCHANGED <<model_cache, current_state_id>>
             /\ uuid_count' = uuid_count + 1
             /\ ret' = [kind |-> "dict", success |-> FALSE, error |-> "str(e)",
                        state_id |-> current_state_id]

\* LLMNLMeshAgent.process_upload: ModelInfo(...) raises a validation error for
\* a file_format that is no ModelFormat, after model_id was drawn.
LLM_process_upload(filename, file_format) ==
  /\ op' = "process_upload"
  /\ args' = [filename |-> filename, file_format |-> file_format]
  /\ trace' = <<>>
  /\ LET model_id == uuid4(uuid_count)
     IN IF file_format \in ModelFormat
        THEN /\ model_cache' =
                  cache_store(model_cache, model_id,
                    cache_entry(model_id, filename, file_format, "/uploads/" \o filename))
             /\ current_state_id' = uuid4(uuid_count + 1)
             /\ uuid_count' = uuid_count + 2
             /\ ret' = [kind |-> "dict", success |-> TRUE, model_id |-> model_id,
                        state_id |-> current_state_id']
        ELSE /\ UNCHANGED <<model_cache, current_state_id>>
             /\ uuid_count' = uuid_count + 1
             /\ ret' = [kind |-> "dict", success |-> FALSE, error |-> "str(e)",
                        state_id |-> current_state_id]

\* cleanup_model that deletes the record and keeps the state token.
cleanup_model_keeping_token(model_id) ==
  /\ op' = "cleanup_model"
  /\ args' = [model_id |-> model_id]
  /\ IF model_id \in DOMAIN model_cache
     THEN /\ trace' = <<"cleanup_file">>
          /\ model_cache' = cache_delete(model_cache, model_id)
          /\ UNCHANGED <<current_state_id, uuid_count>>
          /\ ret' = [kind |-> "bool", value |-> TRUE]
     ELSE /\ trace' = <<>>
          /\ UNCHANGED <<model_cache, current_state_id, uuid_count>>
          /\ ret' = [kind |-> "bool", value |-> FALSE]

\* cleanup_model that renews the state token before it looks the id up.
cleanup_model_renewing_first(model_id) ==
  /\ op' = "cleanup_model"
  /\ args' = [model_id |-> model_id]
  /\ current_state_id' = uuid4(uuid_count)
  /\ uuid_count' = uuid_count + 1
  /\ IF model_id \in DOMAIN model_cache
     THEN /\ trace' = <<"cleanup_file">>
          /\ model_cache' = cache_delete(model_cache, model_id)
          /\ ret' = [kind |-> "bool", value |-> TRUE]
     ELSE /\ trace' = <<>>
          /\ UNCHANGED model_cache
          /\ ret' = [kind |-> "bool", value |-> FALSE]

\* cleanup_model of both agent classes (the same code); cleanup_file swallows
\* its own exceptions.
cleanup_model(model_id) ==
  /\ op' = "cleanup_model"
  /\ args' = [model_id |-> model_id]
  /\ IF model_id \in DOMAIN model_cache
     THEN /\ trace' = <<"cleanup_file">>
          /\ model_cache' = cache_delete(model_cache, model_id)
          /\ current_state_id' = uuid4(uuid_count)
          /\ uuid_count' = uuid_count + 1
          /\ ret' = [kind |-> "bool", value |-> TRUE]
     ELSE /\ trace' = <<>>
          /\ UNCHANGED <<model_cache, current_state_id, uuid_count>>
          /\ ret' = [kind |-> "bool", value |-> FALSE]

\* get_model_info of both agent classes.
get_model_info(model_id) ==
  /\ op' = "get_model_info"
  /\ args' = [model_id |-> model_id]
  /\ trace' = <<>>
  /\ ret' = IF model_id \in DOMAIN model_cache
            THEN [kind |-> "ModelInfo", value |-> model_cache[model_id].model_info]
            ELSE None
  /\ UNCHANGED <<model_cache, current_state_id, uuid_count>>

\* get_current_state that returns the token the object was constructed with.
get_current_state_of_construction ==
  /\ op' = "get_current_state"
  /\ args' = <<>>
  /\ trace' = <<>>
  /\ ret' = [kind |-> "str", value |-> uuid4(0)]
  /\ UNCHANGED <<model_cache, current_state_id, uuid_count>>

\* get_current_state of both agent classes.
get_current_state ==
  /\ op' = "get_current_state"
  /\ args' = <<>>
  /\ trace' = <<>>
  /\ ret' = [kind |-> "str", value |-> current_state_id]
  /\ UNCHANGED <<model_cache, current_state_id, uuid_count>>

\* analyze_model that renews the state token as the mutating methods do.
analyze_returns_renewing(request, returned) ==
  /\ op' = "analyze_model"
  /\ args' = request
  /\ trace' = returned.trace
  /\ ret' = IF returned.raised THEN Raised ELSE returned.value
  /\ current_state_id' = uuid4(uuid_count)
  /\ UNCHANGED <<model_cache, uuid_count>>

\* analyze_model during which a cleanup_model of the analyzed model runs: the
\* result is the one built from the cache as it was, the record is gone when
\* the method returns.
analyze_returns_after_release(request, returned) ==
  /\ op' = "analyze_model"
  /\ args' = request
  /\ trace' = returned.trace
  /\ ret' = IF returned.raised THEN Raised ELSE returned.value
  /\ model_cache' = IF request.model_id \in DOMAIN model_cache
                    THEN cache_delete(model_cache, request.model_id)
                    ELSE model_cache
  /\ UNCHANGED <<current_state_id, uuid_count>>

\* What a call of analyze_model leaves behind: the method assigns no field of
\* the agent object.
analyze_returns(request, returned) ==
  /\ op' = "analyze_model"
  /\ args' = request
  /\ trace' = returned.trace
  /\ ret' = IF returned.raised THEN Raised ELSE returned.value
  /\ UNCHANGED <<model_cache, current_state_id, uuid_count>>

\* The call of analyze_model on an agent object of either class.
LangGraph_analyze_call(request, engine) ==
  analyze_returns(request, LangGraph_analyze_model(request, engine))

LLM_analyze_call(request, response) ==
  analyze_returns(request, LLM_analyze_model(request, response))

\* ---------------------------------------------------------- specification

\* __init__ of either class: an empty cache and a first state token.
\* NLMeshInspectAgent.__init__ copies that token into its own attribute.  The
\* methods are called one at a time: no request handler is in flight.
Init ==
  /\ agent \in {LangGraphNLMeshAgent, LLMNLMeshAgent}
  /\ model_cache = <<>>
  /\ current_state_id = uuid4(0)
  /\ uuid_count = 1
  /\ past_state_ids = {}
  /\ released = {}
  /\ op = "idle"
  /\ args = <<>>
  /\ ret = None
  /\ trace = <<>>
  /\ wrapper_current_state_id = current_state_id
  /\ handlers = <<>>

\* What every method call leaves behind besides its own assignments: the
\* tokens that were replaced and the ids whose records were removed are added
\* to the history, the agent object keeps its class, and no method of
\* NLMeshInspectAgent assigns the wrapper's own current_state_id.
Called ==
  /\ agent' = agent
  /\ past_state_ids' = IF current_state_id' # current_state_id
                       THEN past_state_ids \cup {current_state_id}
                       ELSE past_state_ids
  /\ released' = released \cup (DOMAIN model_cache \ DOMAIN model_cache')
  /\ wrapper_current_state_id' = wrapper_current_state_id

\* A method called directly on the agent object, outside the API.
History ==
  /\ Called
  /\ UNCHANGED handlers

LangGraphProcessUpload ==
  /\ op = "idle"
  /\ agent = LangGraphNLMeshAgent
  /\ uuid_count + 2 <= MaxUuid
  /\ \E filename \in FileNames, file_format \in FileFormats, processed \in BOOLEAN :
       LangGraph_process_upload(filename, file_format, processed)
  /\ History

LLMProcessUpload ==
  /\ op = "idle"
  /\ agent = LLMNLMeshAgent
  /\ uuid_count + 2 <= MaxUuid
  /\ \E filename \in FileNames, file_format \in FileFormats :
       LLM_process_upload(filename, file_format)
  /\ History

CleanupModel ==
  /\ op = "idle"
  /\ \E model_id \in Ids :
       /\ model_id \in DOMAIN model_cache => uuid_count + 1 <= MaxUuid
       /\ cleanup_model(model_id)
  /\ History

GetModelInfo ==
  /\ op = "idle"
  /\ \E model_id \in Ids : get_model_info(model_id)
  /\ History

GetCurrentState ==
  /\ op = "idle"
  /\ get_current_state
  /\ History

LangGraphAnalyzeModel ==
  /\ op = "idle"
  /\ agent = LangGraphNLMeshAgent
  /\ \E model_id \in Ids, state_id \in Ids, text \in Texts, engine \in MeshEngine :
       LangGraph_analyze_call(AnalysisRequest(model_id, text, state_id), engine)
  /\ History

LLMAnalyzeModel ==
  /\ op = "idle"
  /\ agent = LLMNLMeshAgent
  /\ \E model_id \in Ids, state_id \in Ids, text \in Texts, response \in LLMResponses :
       LLM_analyze_call(AnalysisRequest(model_id, text, state_id), response)
  /\ History

\* The caller has taken the returned value: the observation of the call is
\* dropped, the agent object stays as the call left it.
Return ==
  /\ op # "idle"
  /\ op' = "idle"
  /\ args' = <<>>
  /\ ret' = None
  /\ trace' = <<>>
  /\ UNCHANGED <<agent, model_cache, current_state_id, uuid_count,
                 past_state_ids, released, wrapper_current_state_id, handlers>>

Next ==
  \/ LangGraphProcessUpload
  \/ LLMProcessUpload
  \/ CleanupModel
  \/ GetModelInfo
  \/ GetCurrentState
  \/ LangGraphAnalyzeModel
  \/ LLMAnalyzeModel
  \/ Return

Spec == Init /\ [][Next]_vars

\* ------------------------------------------------------------------ claims

\* The last call invoked the named stage or collaborator.
Invoked(name) == \E i \in DOMAIN trace : trace[i] = name

\* The last call was analyze_model; its request is args, its result ret.
Analyzed == op = "analyze_model"

\* analyze_model assigns neither field, so the token and the cache it read are
\* the ones of the state that holds its result.
TokenMatches == args.state_id = current_state_id

ModelRegistered == args.model_id \in DOMAIN model_cache

\* The operations a dispatched analysis invokes.
AnalysisOperations ==
  { "measure_volume", "measure_surface_area", "detect_features",
    "check_topology", "_perform_selection" }

\* The fields of the AnalysisResult envelope.
EnvelopeFields ==
  { "kind", "success", "result_type", "data", "message", "features",
    "execution_time", "state_id" }

\* QueryParser returned a dict whose is_valid is False for the request's text.
ParserReportsInvalid ==
  /\ Invoked("parse_query")
  /\ ~parse_query_of[args.natural_language_query].raised
  /\ ~parse_query_of[args.natural_language_query].is_valid

\* A stage of the last analysis failed: the token or the model check, the
\* parser's verdict, an exception, or a node that set an error.
StageFailed ==
  \/ ~TokenMatches
  \/ ~ModelRegistered
  \/ ParserReportsInvalid
  \/ Invoked("except")
  \/ Invoked("handle_error")

\* C1: every analyze request whose state_id differs from the current state
\* token gets a result with success = false and result_type state_conflict,
\* whatever its model id and its query text are.
C1_StaleTokenIsStateConflict ==
  (Analyzed /\ ~TokenMatches) =>
    /\ ret.kind = "AnalysisResult"
    /\ ret.success = FALSE
    /\ ret.result_type = "state_conflict"

\* C2: every successful process_upload and cleanup_model installs a token that
\* was never current before, and analyze called with a token that has been
\* replaced always yields state_conflict.
C2_ReplacedTokenIsStateConflict ==
  /\ current_state_id \notin past_state_ids
  /\ (Analyzed /\ args.state_id \in past_state_ids) =>
       /\ ret.kind = "AnalysisResult"
       /\ ret.success = FALSE
       /\ ret.result_type = "state_conflict"

\* C3: a call of analyze_model, whatever its request and its outcome, leaves
\* the records of the cache and the state token as they were; only
\* process_upload and cleanup_model change either of them.
C3_AnalyzeLeavesRegistry ==
  [][ /\ (op' = "analyze_model" /\ op = "idle") => registry' = registry
      /\ registry' # registry => op' \in {"process_upload", "cleanup_model"}
    ]_vars

\* C3 witness: an analysis succeeded on a cache that holds a record, after
\* the token was renewed.
C3_Witness ==
  /\ Analyzed
  /\ ret.kind = "AnalysisResult"
  /\ ret.success
  /\ model_cache # <<>>
  /\ past_state_ids # {}

C5_UnknownModelIsModelNotFound ==
  (Analyzed /\ TokenMatches /\ ~ModelRegistered
     /\ args.model_id # EmptyId /\ args.natural_language_query # "") =>
    /\ ret.kind = "AnalysisResult"
    /\ ret.success = FALSE
    /\ ret.result_type = "model_not_found"

C7_EmptyFieldIsValidationError ==
  (Analyzed /\ TokenMatches
     /\ (args.model_id = EmptyId \/ args.natural_language_query = "")) =>
    /\ ret.kind = "AnalysisResult"
    /\ ret.success = FALSE
    /\ ret.result_type \notin {"model_not_found", "invalid_query"}
    /\ ~Invoked("model_cache")

\* C8: cleanup_model of an id that is in the cache removes exactly that
\* record, installs a token that was never current and returns True; every
\* other record stays as it was, and get_model_info of a removed id returns
\* None from then on.
C8_CleanupRemovesExactlyOne ==
  [][ /\ (op = "idle" /\ op' = "cleanup_model"
            /\ args'.model_id \in DOMAIN model_cache) =>
           /\ ret' = [kind |-> "bool", value |-> TRUE]
           /\ DOMAIN model_cache' = DOMAIN model_cache \ {args'.model_id}
           /\ \A k \in DOMAIN model_cache' : model_cache'[k] = model_cache[k]
           /\ current_state_id' # current_state_id
           /\ current_state_id' \notin past_state_ids
           /\ current_state_id' \notin DOMAIN model_cache
      /\ (op = "idle" /\ op' = "get_model_info" /\ args'.model_id \in released) =>
           ret' = None
    ]_vars

\* C8 witness: a record was removed while another one stayed, and a later
\* get_model_info asked for the removed id.
C8_Witness ==
  /\ op = "get_model_info"
  /\ args.model_id \in released
  /\ model_cache # <<>>

\* C9: cleanup_model of an id that is not in the cache returns False and
\* leaves the records and the state token exactly as they were.
C9_CleanupOfAbsentIdIsNoOp ==
  [][ (op = "idle" /\ op' = "cleanup_model"
         /\ args'.model_id \notin DOMAIN model_cache) =>
        /\ ret' = [kind |-> "bool", value |-> FALSE]
        /\ model_cache' = model_cache
        /\ current_state_id' = current_state_id
    ]_vars

\* C9 witness: cleanup_model returned False on a cache that holds records,
\* for an id that was removed before.
C9_Witness ==
  /\ op = "cleanup_model"
  /\ ret.value = FALSE
  /\ args.model_id \in released
  /\ model_cache # <<>>

\* C10: every successful process_upload stores exactly one new record, under
\* an id no record held, overwrites none, and returns that id with the token
\* that is current after the call; the record is found under the returned id.
C10_UploadStoresOneFreshRecord ==
  [][ (op = "idle" /\ op' = "process_upload" /\ ret'.success) =>
        /\ ret'.model_id \notin DOMAIN model_cache
        /\ ret'.model_id \notin released
        /\ DOMAIN model_cache' = DOMAIN model_cache \cup {ret'.model_id}
        /\ \A k \in DOMAIN model_cache : model_cache'[k] = model_cache[k]
        /\ model_cache'[ret'.model_id].model_info.model_id = ret'.model_id
        /\ model_cache'[ret'.model_id].model_info.file_name = args'.filename
        /\ ret'.state_id = current_state_id'
        /\ current_state_id' # current_state_id
    ]_vars

\* C10 witness: a second upload succeeded while the first record was cached.
C10_Witness ==
  /\ op = "process_upload"
  /\ ret.success
  /\ Cardinality(DOMAIN model_cache) = 2

\* C11: every AnalysisResult returned by analyze_model carries in state_id the
\* agent's current state token, whatever token the request presented; and
\* get_current_state, called while nothing has mutated the registry, returns
\* that same token.
C11_ResultCarriesCurrentToken ==
  /\ Analyzed => (ret.kind = "AnalysisResult" /\ ret.state_id = current_state_id)
  /\ op = "get_current_state" => ret.value = current_state_id

\* C11 witness: a request that presented a token replaced earlier got a result
\* that carries the current token, not the presented one.
C11_Witness ==
  /\ Analyzed
  /\ args.state_id \in past_state_ids
  /\ ret.kind = "AnalysisResult"
  /\ ret.state_id = current_state_id
  /\ ret.state_id # args.state_id

\* ------------------------------------------------------------ api/main.py
\* The API serves every request by an `async def` handler on one event loop,
\* all of them sharing the module-level agent object.  A handler runs without
\* interruption from one `await` to the next; while it is suspended at an
\* `await` the handlers of other callers run.  No handler and no agent method
\* starts a thread, and no agent method contains an `await`.

\* How many callers have a request in flight at the same time.
MaxCallers == 2

Callers == 1..MaxCallers

\* The routes whose handlers call the agent object.
Routes == {"upload_model", "analyze_model", "get_model_info", "delete_model"}

\* One request handler: its route and where it stands.
Handler(route, pc) == [route |-> route, pc |-> pc]

\* The handler has returned or raised HTTPException: the caller has no
\* request in flight.
Returned == Handler("none", "done")

\* The text of the analyze requests sent through the API.
ApiTexts == {"Measure Volume"}

\* The tool-selection step of an analyze request: it raises, or answers.
ApiResponses ==
  { response \in LLMResponses : response.tool_calls = <<>> }

\* The model ids the callers name: ids an upload returned (cached or already
\* removed) and one that was never returned.
KnownModelIds == DOMAIN model_cache \cup released \cup {OtherId}

\* The state tokens the callers present: the current one, replaced ones, and
\* one that was never issued.
KnownStateIds == {current_state_id} \cup past_state_ids \cup {OtherId}

\* agent = NLMeshInspectAgent(upload_dir="uploads"): the wrapped object is an
\* LLMNLMeshAgent; no request has arrived.
ApiInit ==
  /\ agent = LLMNLMeshAgent
  /\ model_cache = <<>>
  /\ current_state_id = uuid4(0)
  /\ uuid_count = 1
  /\ past_state_ids = {}
  /\ released = {}
  /\ op = "idle"
  /\ args = <<>>
  /\ ret = None
  /\ trace = <<>>
  /\ wrapper_current_state_id = current_state_id
  /\ handlers = [c \in Callers |-> Returned]

\* The handler of caller c moves on without calling the agent object.
Suspended(c, before, after) ==
  /\ handlers[c] = before
  /\ handlers' = [handlers EXCEPT ![c] = after]
  /\ UNCHANGED <<agent, model_cache, current_state_id, uuid_count,
                 past_state_ids, released, op, args, ret, trace,
                 wrapper_current_state_id>>

\* A request of caller c arrives and its handler is scheduled.
ApiRequest(c) ==
  \E route \in Routes :
    /\ handlers[c].pc = "done"
    /\ handlers' = [handlers EXCEPT ![c] = Handler(route, "start")]
    /\ UNCHANGED <<agent, model_cache, current_state_id, uuid_count,
                   past_state_ids, released, op, args, ret, trace,
                   wrapper_current_state_id>>

\* upload_model up to `await file.read()`.
UploadModelRead(c) ==
  Suspended(c, Handler("upload_model", "start"), Handler("upload_model", "file.read"))

\* upload_model from the return of file.read(): agent.process_upload, then
\* HTTPException on failure or `await manager.broadcast(...)`.  file_format
\* has been validated as a ModelFormat by the framework.
UploadModelCall(c) ==
  /\ handlers[c] = Handler("upload_model", "file.read")
  /\ uuid_count + 2 <= MaxUuid
  /\ \E filename \in FileNames, file_format \in FileFormats \cap ModelFormat :
       LLM_process_upload(filename, file_format)
  /\ Called
  /\ handlers' = [handlers EXCEPT
                    ![c] = IF ret'.success
                           THEN Handler("upload_model", "broadcast")
                           ELSE Returned]

\* analyze_model up to its `await manager.broadcast(...)` (sent for a
\* successful result only) or its return.
AnalyzeModelCall(c) ==
  /\ handlers[c] = Handler("analyze_model", "start")
  /\ \E model_id \in KnownModelIds, state_id \in KnownStateIds,
        text \in ApiTexts, response \in ApiResponses :
       LLM_analyze_call(AnalysisRequest(model_id, text, state_id), response)
  /\ Called
  /\ handlers' = [handlers EXCEPT
                    ![c] = IF ret'.kind = "AnalysisResult" /\ ret'.success
                           THEN Handler("analyze_model", "broadcast")
                           ELSE Returned]

\* get_model_info: the whole handler, it has no `await`.
GetModelInfoCall(c) ==
  /\ handlers[c] = Handler("get_model_info", "start")
  /\ \E model_id \in KnownModelIds : get_model_info(model_id)
  /\ Called
  /\ handlers' = [handlers EXCEPT ![c] = Returned]

\* delete_model up to HTTPException or `await manager.broadcast(...)`.
DeleteModelCall(c) ==
  /\ handlers[c] = Handler("delete_model", "start")
  /\ \E model_id \in KnownModelIds :
       /\ model_id \in DOMAIN model_cache => uuid_count + 1 <= MaxUuid
       /\ cleanup_model(model_id)
  /\ Called
  /\ handlers' = [handlers EXCEPT
                    ![c] = IF ret'.value
                           THEN Handler("delete_model", "broadcast")
                           ELSE Returned]

\* manager.broadcast returned: the handler returns its response.
BroadcastDone(c) ==
  \E route \in Routes : Suspended(c, Handler(route, "broadcast"), Returned)

ApiNext ==
  \E c \in Callers :
    \/ ApiRequest(c)
    \/ UploadModelRead(c)
    \/ UploadModelCall(c)
    \/ AnalyzeModelCall(c)
    \/ GetModelInfoCall(c)
    \/ DeleteModelCall(c)
    \/ BroadcastDone(c)

ApiSpec == ApiInit /\ [][ApiNext]_vars

\* C12: with several callers' handlers in flight, every step that changes the
\* set of cached records changes the state token too, and every step that
\* changes the token changes the set of records: between two steps, which is
\* where the other callers read, the new record set is never seen with the old
\* token nor the new token with the old record set.
C12_TokenAndRecordsChangeTogether ==
  [][ (DOMAIN model_cache' # DOMAIN model_cache)
        <=> (current_state_id' # current_state_id) ]_vars

\* C12 witness: while the upload handler of one caller is suspended between
\* its process_upload and its return, the analyze handler of another caller
\* read the registry: it found the new record under the new token.
C12_Witness ==
  /\ \E c \in Callers : handlers[c] = Handler("upload_model", "broadcast")
  /\ \E c \in Callers : handlers[c].route = "analyze_model"
  /\ op = "analyze_model"
  /\ args.model_id \in DOMAIN model_cache
  /\ args.state_id = current_state_id
  /\ ret.success
  /\ ret.state_id = current_state_id

\* The methods of the mesh engine that a dispatched analysis calls.
EngineMethods ==
  { "measure_volume", "measure_surface_area", "detect_features", "check_topology" }

\* A collaborator of the last analysis failed: an engine method raised to the
\* orchestrator or swallowed what the mesh raised, or the tool-selection call
\* raised (the only way _llm_analysis sets an error).
CollaboratorFailed ==
  \/ Invoked("swallowed")
  \/ \E i \in 1..(Len(trace) - 1) :
       \/ trace[i] \in EngineMethods /\ trace[i + 1] = "except"
       \/ trace[i] = "llm_with_tools.invoke" /\ trace[i + 1] = "handle_error"

\* C13: whenever a collaborator invoked during the dispatch of an analysis
\* (the mesh engine's volume, surface area, topology or feature detection, or
\* the tool-selection step) fails, analyze_model returns success = false with
\* result_type analysis_error; the failure is never reported as a success.
C13_CollaboratorFailureIsAnalysisError ==
  (Analyzed /\ CollaboratorFailed) =>
    /\ ret.success = FALSE
    /\ ret.result_type = "analysis_error"

\* ------------------------------------------- nlp_engine.py / parser calls
\* The classes of nlp_engine.py hold tables only: every method is a function
\* of its arguments.  A second specification calls them one at a time on
\* bounded inputs, the call observed in op, args and ret as above.

\* The words of the texts the two classifiers are called on: keywords of the
\* three intents and of three query types ("check", "select" and "hole" count
\* for an intent or an entity and for a query type, "move" and "manifold" for
\* one table only).
ClassifierWords == {"check", "select", "move", "modify", "manifold", "hole"}

\* The words of the texts the extractor and parse_query are called on:
\* keywords of intents and entities and the three kinds of constraint
\* ("greater than 10mm", "less than 5cm", "3 to 7").
QueryWords == {"select", "modify", "hole", "face", "}~10mm", "{~5cm", "3^7"}

\* How many words a text has at most.
MaxWords == 3

\* The texts of one more word than those of shorter.
one_word_more(words, shorter) ==
  { IF p = "" THEN w ELSE p \o " " \o w : p \in shorter, w \in words }

\* The texts of at most n of the words, separated by one blank.
RECURSIVE texts_up_to(_, _)
texts_up_to(words, n) ==
  IF n = 0 THEN {""}
  ELSE texts_up_to(words, n - 1)
         \cup one_word_more(words, texts_up_to(words, n - 1))

ClassifierTexts == texts_up_to(ClassifierWords, MaxWords)

QueryTexts == texts_up_to(QueryWords, MaxWords)

\* "xianshi suoyou kongdong", the example query "show all holes".
ShowAllHoles == "<>[]()"

\* The values normalize_units is called on, in hundredths of a millimetre:
\* 0, 0.5, 1, ... up to MaxValue halves.
MaxValue == 6

Values == { v * 50 : v \in 0..MaxValue }

\* The unit tokens: those of the table, an absent one, and unknown ones.
UnitTokens ==
  { "mm", "cm", "m", "in", "inch", "%@", "@", "&$",
    NoGroup, "km", "MM", "inches" }

\* The intent values _validate_query is called on: the three of the
\* enumeration and one that is none of them.
IntentValues == {"query", "operation", "modification", "other"}

\* The entity lists and parameter dicts _validate_query is called on.
EntityLists ==
  { <<>>,
    <<[type |-> "hole", keyword |-> "hole", position |-> 0]>>,
    <<[type |-> "hole", keyword |-> "hole", position |-> 0],
      [type |-> "face", keyword |-> "face", position |-> 5]>> }

ParameterDicts ==
  { <<>>, [min_value |-> 1000], [min_value |-> 300, max_value |-> 700] }

\* QueryParser(): the parser object; no agent object is involved.
QueryParser == "QueryParser"

ParserInit ==
  /\ agent = QueryParser
  /\ model_cache = <<>>
  /\ current_state_id = uuid4(0)
  /\ uuid_count = 1
  /\ past_state_ids = {}
  /\ released = {}
  /\ op = "idle"
  /\ args = <<>>
  /\ ret = None
  /\ trace = <<>>
  /\ wrapper_current_state_id = current_state_id
  /\ handlers = <<>>

\* One call of a method of the parser: it assigns no field of any object.
ParserCall(method, arguments, returned) ==
  /\ op' = method
  /\ args' = arguments
  /\ ret' = returned
  /\ trace' = <<>>
  /\ UNCHANGED <<agent, model_cache, current_state_id, uuid_count,
                 past_state_ids, released, wrapper_current_state_id, handlers>>

ClassifyIntent ==
  /\ op = "idle"
  /\ \E text \in ClassifierTexts :
    ParserCall("classify_intent", [text |-> text],
               [kind |-> "AnalysisIntent", value |-> classify_intent(text)])

ClassifyQueryType ==
  /\ op = "idle"
  /\ \E text \in ClassifierTexts :
    ParserCall("classify_query_type", [text |-> text],
               [kind |-> "QueryType", value |-> classify_query_type(text)])

ExtractEntities ==
  /\ op = "idle"
  /\ \E text \in QueryTexts :
    ParserCall("extract_entities", [text |-> text],
               [kind |-> "list", value |-> extract_entities(text)])

NormalizeUnits ==
  /\ op = "idle"
  /\ \E value \in Values, unit \in UnitTokens :
    ParserCall("normalize_units", [value |-> value, unit |-> unit],
               [kind |-> "float", value |-> normalize_units(value, unit)])

ValidateQuery ==
  /\ op = "idle"
  /\ \E intent \in IntentValues, entities \in EntityLists,
     parameters \in ParameterDicts :
    ParserCall("_validate_query",
               [intent |-> intent, entities |-> entities,
                parameters |-> parameters],
               [kind |-> "bool",
                value |-> _validate_query(intent, entities, parameters)])

ParseQuery ==
  /\ op = "idle"
  /\ \E text \in QueryTexts \cup {ShowAllHoles} :
    ParserCall("parse_query", [text |-> text], parse_query(text))

ParserNext ==
  \/ ClassifyIntent
  \/ ClassifyQueryType
  \/ ExtractEntities
  \/ NormalizeUnits
  \/ ValidateQuery
  \/ ParseQuery
  \/ Return

ParserSpec == ParserInit /\ [][ParserNext]_vars

\* The validity C14 states for an intent, an entity list and a parameter dict.
ValidFor(intent, entities, parameters) ==
  \/ intent = "query"
  \/ intent = "operation" /\ Len(entities) >= 1
  \/ intent = "modification" /\ Len(entities) >= 1
       /\ Cardinality(DOMAIN parameters) >= 1

IntentCount(intent, text) == score(intent_patterns[intent], lower(text))

\* How many patterns of the query type match the text.
TypeCount(qtype, text) == score(query_type_patterns[qtype], lower(text))

\* C15: classify_intent returns the intent whose count of matching patterns is
\* the highest; among several with the highest count the earliest of query,
\* operation, modification; and query when no pattern of any intent matches.
C15_IntentIsFirstWithHighestCount ==
  op = "classify_intent" =>
    /\ \E i \in 1..Len(AnalysisIntent) :
         /\ ret.value = AnalysisIntent[i]
         /\ \A j \in 1..Len(AnalysisIntent) :
              IntentCount(AnalysisIntent[j], args.text)
                <= IntentCount(AnalysisIntent[i], args.text)
         /\ \A j \in 1..(i - 1) :
              IntentCount(AnalysisIntent[j], args.text)
                < IntentCount(AnalysisIntent[i], args.text)
    /\ (\A j \in 1..Len(AnalysisIntent) :
          IntentCount(AnalysisIntent[j], args.text) = 0) => ret.value = "query"

\* C15 witness: operation and modification share the highest count, above
\* that of query, and operation is returned.
C15_Witness ==
  /\ op = "classify_intent"
  /\ IntentCount("operation", args.text) = IntentCount("modification", args.text)
  /\ IntentCount("query", args.text) < IntentCount("operation", args.text)
  /\ ret.value = "operation"

\* The four query types C16 names, in their order.
NamedQueryTypes ==
  <<"measurement", "feature_detection", "topology_check", "selection">>

\* C16: classify_query_type returns, among measurement, feature_detection,
\* topology_check and selection, the type with the highest count of matching
\* patterns, the earliest of them when several share it, and measurement when
\* no pattern of any query type matches.
C16_QueryTypeIsFirstWithHighestCount ==
  op = "classify_query_type" =>
    /\ \E i \in 1..Len(NamedQueryTypes) :
         /\ ret.value = NamedQueryTypes[i]
         /\ \A j \in 1..Len(NamedQueryTypes) :
              TypeCount(NamedQueryTypes[j], args.text)
                <= TypeCount(NamedQueryTypes[i], args.text)
         /\ \A j \in 1..(i - 1) :
              TypeCount(NamedQueryTypes[j], args.text)
                < TypeCount(NamedQueryTypes[i], args.text)
    /\ (\A j \in 1..Len(QueryType) : TypeCount(QueryType[j], args.text) = 0)
         => ret.value = "measurement"

\* C16 witness: topology_check is returned for its two matching patterns
\* although feature_detection, earlier in the order, matches too.
C16_Witness ==
  /\ op = "classify_query_type"
  /\ TypeCount("feature_detection", args.text) = 1
  /\ TypeCount("topology_check", args.text) = 2
  /\ ret.value = "topology_check"

\* The parameter dict holds, under the key, the captured number converted to
\* millimetres by the unit of the match.
Stored(parameters, key, number, unit) ==
  /\ key \in DOMAIN parameters
  /\ parameters[key] = normalize_units(float(number).value, unit)

\* The roles C17 states, for a text whose only comparison or range match is
\* the one looked at: greater than -> min_value, less than -> max_value,
\* "A to B" -> min_value from A and max_value from B.
RolesAsStated(parameters, comparisons, ranges) ==
  /\ (Len(comparisons) = 1 /\ ranges = <<>> /\ comparisons[1].groups[1] = "}~")
       => Stored(parameters, "min_value",
                 comparisons[1].groups[2], comparisons[1].groups[3])
  /\ (Len(comparisons) = 1 /\ ranges = <<>> /\ comparisons[1].groups[1] = "{~")
       => Stored(parameters, "max_value",
                 comparisons[1].groups[2], comparisons[1].groups[3])
  /\ (comparisons = <<>> /\ Len(ranges) = 1)
       => /\ Stored(parameters, "min_value",
                    ranges[1].groups[1], ranges[1].groups[3])
          /\ Stored(parameters, "max_value",
                    ranges[1].groups[2], ranges[1].groups[3])

\* C17: in the dict parse_query returns, a "greater than" match has set
\* min_value, a "less than" match has set max_value, a range match "A to B"
\* has set min_value from A and max_value from B, each value being the
\* captured number converted to millimetres.
C17_ConstraintRoleByComparisonWord ==
  (op = "parse_query" /\ ~ret.raised) =>
    RolesAsStated(ret.parameters, comparison_matches(args.text, 1),
                  range_matches(args.text, 1))

\* The multiplier C18 states for a unit token, in tenths: 1 for mm, 10 for cm,
\* 1000 for m, 25.4 for in / inch (and the three CJK names), 1 for any other
\* token and for an absent one.
MultiplierInTenths(unit) ==
  IF unit = "mm" THEN 10
  ELSE IF unit \in {"cm", "%@"} THEN 100
  ELSE IF unit \in {"m", "@"} THEN 10000
  ELSE IF unit \in {"in", "inch", "&$"} THEN 254
  ELSE 10

\* C18: normalize_units returns value x 1 for mm, x 10 for cm, x 1000 for m,
\* x 25.4 for in / inch, the value unchanged for every unknown or absent unit
\* token, and always returns a number.
C18_NormalizeMultipliesByUnit ==
  op = "normalize_units" =>
    /\ ret.kind = "float"
    /\ ret.value * 10 = args.value * MultiplierInTenths(args.unit)

\* C18 witness: 0.5 in became 12.7 mm.
C18_Witness ==
  /\ op = "normalize_units"
  /\ args.unit = "in"
  /\ args.value = 50
  /\ ret.value = 1270

\* C19: extract_entities returns its entities sorted by ascending text
\* offset: of any two entities of the result the one listed first has an
\* offset less than or equal to the other's.
C19_EntitiesSortedByOffset ==
  op = "extract_entities" =>
    \A i \in 1..Len(ret.value) : \A j \in i..Len(ret.value) :
      ret.value[i].position <= ret.value[j].position

\* C19 witness: "hole" stands before "face" in the text and after it in the
\* keyword table; the result lists the hole first.
C19_Witness ==
  /\ op = "extract_entities"
  /\ Len(ret.value) = 2
  /\ ret.value[1].type = "hole"
  /\ ret.value[2].type = "face"
  /\ ret.value[1].position < ret.value[2].position

\* C20: on NLMeshInspectAgent (which wraps an LLMNLMeshAgent), after any
\* sequence of process_upload and cleanup_model calls the attribute
\* current_state_id of the wrapper equals what get_current_state() returns,
\* the wrapped agent's token; so it is none of the tokens that a successful
\* upload or cleanup has replaced.
C20_WrapperAttributeIsCurrentToken ==
  agent = LLMNLMeshAgent =>
    /\ wrapper_current_state_id = current_state_id
    /\ wrapper_current_state_id \notin past_state_ids

\* The analysis operations of a query type.
OperationsOf(query_type) ==
  IF query_type = "measurement" THEN {"measure_volume", "measure_surface_area"}
  ELSE IF query_type = "feature_detection" THEN {"detect_features"}
  ELSE IF query_type = "topology_check" THEN {"check_topology"}
  ELSE IF query_type = "selection" THEN {"_perform_selection"}
  ELSE {}

\* The analysis operations the last call invoked.
InvokedOperations == {trace[i] : i \in DOMAIN trace} \cap AnalysisOperations

\* The data of a successful result holds what the operations of the query
\* type returned: both measurements, the detector's features, the topology
\* result as check_topology returned it, the selection.
DataOf(query_type, data) ==
  /\ query_type = "measurement" =>
       /\ "measurements" \in DOMAIN data
       /\ DOMAIN data.measurements = {"volume", "surface_area"}
  /\ query_type = "feature_detection" => "features" \in DOMAIN data
  /\ query_type = "topology_check" =>
       /\ "topology" \in DOMAIN data
       /\ data.topology \in {check_topology(engine).value :
                               engine \in MeshEngine \ {"missing"}}
  /\ query_type = "selection" => "selected_indices" \in DOMAIN data

\* The claim of C21 for a successful result and the query type parsed from
\* the request's text.
DispatchedAs(query_type) ==
  /\ ret.result_type = query_type
  /\ InvokedOperations = OperationsOf(query_type)
  /\ DataOf(query_type, ret.data)

\* C21: a successful analyze_model has result_type equal to the query type
\* parsed from the text and has invoked exactly the analysis operations of
\* that query type: measurement the volume and the surface area, both put
\* under data.measurements; feature_detection the feature detector;
\* topology_check the topology check, its result passed through; selection
\* the selection.
C21_SuccessDispatchesParsedQueryType ==
  (Analyzed /\ ret.kind = "AnalysisResult" /\ ret.success
     /\ ~parse_query_of[args.natural_language_query].raised)
    => DispatchedAs(parse_query_of[args.natural_language_query].query_type)

\* C21 on the agent class that dispatches by the parsed query type.
C21_OnLangGraphAgent ==
  agent = LangGraphNLMeshAgent => C21_SuccessDispatchesParsedQueryType

\* --------------------------------- langgraph_agent.py / dispatch methods
\* The methods _execute_specific_analysis dispatches to are functions of
\* their arguments.  A third specification calls them directly on a
\* LangGraphNLMeshAgent object, on bounded inputs.

\* How many features a detected list holds at most.
MaxFeatures == 2

\* The declared sizes of the features, in hundredths of a millimetre.
FeatureSizes == {300, 800, 1200}

\* models.GeometricFeature with its size among the properties.
GeometricFeature(entity_type, size) ==
  [entity_type |-> entity_type, indices |-> <<0>>, properties |-> [size |-> size]]

\* The lists of at most n detected features (holes of the sizes above).
RECURSIVE feature_lists(_)
feature_lists(n) ==
  IF n = 0 THEN {<<>>}
  ELSE feature_lists(n - 1)
         \cup { Append(features, GeometricFeature("hole", size)) :
                  features \in feature_lists(n - 1), size \in FeatureSizes }

FeatureLists == feature_lists(MaxFeatures)

\* The parameter dicts of the calls: no bound, a lower one, an upper one,
\* both.
FilterParameters ==
  { <<>>, [min_value |-> 500], [max_value |-> 1000],
    [min_value |-> 500, max_value |-> 1000] }

DispatchInit ==
  /\ agent = LangGraphNLMeshAgent
  /\ model_cache = <<>>
  /\ current_state_id = uuid4(0)
  /\ uuid_count = 1
  /\ past_state_ids = {}
  /\ released = {}
  /\ op = "idle"
  /\ args = <<>>
  /\ ret = None
  /\ trace = <<>>
  /\ wrapper_current_state_id = current_state_id
  /\ handlers = <<>>

\* One direct call of a dispatch method: what it invoked is kept in trace,
\* no field of the agent object is assigned.
DispatchCall(method, arguments, returned, invoked) ==
  /\ op' = method
  /\ args' = arguments
  /\ ret' = returned
  /\ trace' = invoked
  /\ UNCHANGED <<agent, model_cache, current_state_id, uuid_count,
                 past_state_ids, released, wrapper_current_state_id, handlers>>

FilterFeaturesByParameters ==
  /\ op = "idle"
  /\ \E features \in FeatureLists, parameters \in FilterParameters :
       DispatchCall("_filter_features_by_parameters",
                    [features |-> features, parameters |-> parameters],
                    [kind |-> "list",
                     value |-> _filter_features_by_parameters(features, parameters)],
                    <<>>)

PerformSelection ==
  /\ op = "idle"
  /\ \E entities \in EntityLists, parameters \in FilterParameters :
       DispatchCall("_perform_selection",
                    [entities |-> entities, parameters |-> parameters],
                    _perform_selection(entities, parameters).value,
                    _perform_selection(entities, parameters).trace)

\* The query types a parsed query may carry: those of the enumeration and a
\* value that is none of them.
QueryTypeValues == {QueryType[i] : i \in 1..Len(QueryType)} \cup {"other"}

\* A valid dict as parse_query returns it, with the given query type.
ParsedQuery(query_type, entities) ==
  [raised |-> FALSE, original_text |-> "text", intent |-> "query",
   query_type |-> query_type, entities |-> entities, parameters |-> <<>>,
   is_valid |-> TRUE]

\* analyze_model from the return of parse_query on, the parser having
\* returned the given dict: dispatch, response message, result.
AnalyzeParsedQuery ==
  /\ op = "idle"
  /\ \E query_type \in QueryTypeValues, entities \in EntityLists,
        parameters \in FilterParameters, engine \in MeshEngine :
       DispatchCall("analyze_parsed",
         [parsed_query |-> ParsedQuery(query_type, entities),
          parameters |-> parameters],
         analyze_except(
           analyze_executed(ParsedQuery(query_type, entities),
             _execute_specific_analysis(ParsedQuery(query_type, entities),
                                        parameters, engine))).value,
         analyze_except(
           analyze_executed(ParsedQuery(query_type, entities),
             _execute_specific_analysis(ParsedQuery(query_type, entities),
                                        parameters, engine))).trace)

DispatchNext ==
  \/ FilterFeaturesByParameters
  \/ PerformSelection
  \/ AnalyzeParsedQuery
  \/ Return

DispatchSpec == DispatchInit /\ [][DispatchNext]_vars

\* The filter policy C22 states: a feature is kept iff its size is at least
\* min_value when that is present and at most max_value when that is present.
KeptBy(parameters, feature) ==
  /\ "min_value" \in DOMAIN parameters
       => feature.properties.size >= parameters.min_value
  /\ "max_value" \in DOMAIN parameters
       => feature.properties.size <= parameters.max_value

\* The features of the list the policy keeps, in their order.
RECURSIVE FilteredAsStated(_, _)
FilteredAsStated(features, parameters) ==
  IF features = <<>> THEN <<>>
  ELSE IF KeptBy(parameters, Head(features))
  THEN <<Head(features)>> \o FilteredAsStated(Tail(features), parameters)
  ELSE FilteredAsStated(Tail(features), parameters)

\* C22: the features a feature detection returns are exactly the detected
\* features whose size is >= min_value when one is present and <= max_value
\* when one is present; all of them when neither is present.
C22_FeaturesFilteredByBounds ==
  op = "_filter_features_by_parameters" =>
    ret.value = FilteredAsStated(args.features, args.parameters)

(* C23: a selection returns only the indices of elements whose entity type
   is named in the parsed query; with an empty entity list the selection is
   empty and its count is 0. *)
C23_EmptyEntitiesSelectNothing ==
  (op = "_perform_selection" /\ args.entities = <<>>)
    => (ret.selected_indices = <<>> /\ ret.selected_count = 0)

\* The stage of an analysis that an entry of trace belongs to: 1 the check of
\* the input, 2 the lookup of the model, 3 the parse of the query (the
\* tool-selection step of the workflow), 4 the dispatch, 5 the success
\* result, 6 the failure result.
StageOf(name) ==
  IF name = "validate_input" THEN 1
  ELSE IF name \in {"load_model", "model_cache"} THEN 2
  ELSE IF name \in {"parse_query", "llm_analysis", "llm_with_tools.invoke"} THEN 3
  ELSE IF name = "generate_final_result" THEN 5
  ELSE IF name \in {"except", "handle_error"} THEN 6
  ELSE 4

\* The stage at which the returned failure says the analysis stopped; 5 for a
\* result that names no stage (a success, or an exception caught at the end).
StoppedAt(result) ==
  IF result.result_type = "state_conflict" THEN 1
  ELSE IF result.result_type = "model_not_found" THEN 2
  ELSE IF result.result_type = "invalid_query" THEN 3
  ELSE IF result.result_type = "error"
  THEN IF result.data.error \in {"state id mismatch", "missing model id",
                                 "missing natural language query"} THEN 1
       ELSE IF result.data.error = "model not found" THEN 2
       ELSE IF result.data.error = "LLM analysis error" THEN 3
       ELSE 4
  ELSE 5

\* The entries of trace that end an analysis with a failure result.
FailureEntries == {"except", "handle_error"}

C25_ShowAllHolesIsSelectionOfHoles ==
  (op = "parse_query" /\ args.text = ShowAllHoles) =>
    /\ ~ret.raised
    /\ ret.intent = "operation"
    /\ ret.query_type = "selection"
    /\ Len(ret.entities) = 1
    /\ ret.entities[1].type = "hole"
    /\ ret.is_valid

\* match.start() of the last place where the matched text stands in the text
\* (0-based).
LastIndexOf(text, lit) ==
  (CHOOSE i \in 1..(Len(text) + 1) :
      /\ i + Len(lit) - 1 <= Len(text)
      /\ SubSeq(text, i, i + Len(lit) - 1) = lit
      /\ \A j \in (i + 1)..(Len(text) - Len(lit) + 1) :
           SubSeq(text, j, j + Len(lit) - 1) # lit) - 1

\* What one round of the loop of _parse_constraints stores for a constraint
\* when the dict is still empty: the keys the constraint resolves to, each with
\* its value.
StoredAlone(constraint) ==
  parse_constraint([raised |-> FALSE, parameters |-> <<>>],
                   constraint.pattern, constraint.groups).parameters

\* Of the constraints of the text, those that resolve to the key.
ResolvingTo(constraints, key) ==
  {i \in DOMAIN constraints : key \in DOMAIN StoredAlone(constraints[i])}

\* The value under the key is the one of the match that stands last in the
\* text among the matches that resolve to the key.
LastInTextWins(text, constraints, parameters) ==
  \A key \in DOMAIN parameters :
    \A i \in ResolvingTo(constraints, key) :
      (\A j \in ResolvingTo(constraints, key) :
          LastIndexOf(text, constraints[j].match)
            <= LastIndexOf(text, constraints[i].match))
        => parameters[key] = StoredAlone(constraints[i])[key]

\* C26: when several constraint matches of a text resolve to the same key
\* (min_value, max_value or target_value), parse_query stores under the key
\* the value of the match that occurs later in the text.
C26_LaterMatchInTextWins ==
  (op = "parse_query" /\ ~ret.raised) =>
    LastInTextWins(args.text, extract_numerical_constraints(args.text),
                   ret.parameters)

\* C27: parse_query sets target_value only from a bare number with a unit
\* that no comparison word precedes: a text whose numeric expressions are all
\* comparisons or ranges (every bare number with a unit that the third
\* pattern finds lies inside a match of the first or the second pattern) has
\* no target_value in its parameters.
C27_TargetValueOnlyFromBareNumber ==
  (/\ op = "parse_query"
   /\ ~ret.raised
   /\ comparison_matches(args.text, 1) \o range_matches(args.text, 1) # <<>>
   /\ \A i \in DOMAIN simple_matches(args.text, 1) :
        \E j \in DOMAIN (comparison_matches(args.text, 1)
                           \o range_matches(args.text, 1)) :
          Contains((comparison_matches(args.text, 1)
                      \o range_matches(args.text, 1))[j].match,
                   simple_matches(args.text, 1)[i].match))
    => "target_value" \notin DOMAIN ret.parameters

\* How many times the literal stands in the text (overlapping places count).
Occurrences(text, lit) ==
  Cardinality({i \in 1..Len(text) :
                 /\ i + Len(lit) - 1 <= Len(text)
                 /\ SubSeq(text, i, i + Len(lit) - 1) = lit})

\* C28: extract_entities returns one entity for each hit of a keyword in the
\* text and does not deduplicate: a keyword that stands several times in the
\* text gives as many entities of its type as it has hits, and several
\* keywords of one type give one entity each.
C28_OneEntityPerKeywordHit ==
  op = "extract_entities" =>
    \A k \in DOMAIN entity_keywords :
      Cardinality({i \in DOMAIN ret.value :
                     ret.value[i].keyword = entity_keywords[k].keyword})
        = Occurrences(lower(args.text), lower(entity_keywords[k].keyword))

\* The query types that have a _perform_* method.
DispatchedQueryTypes ==
  {"measurement", "feature_detection", "topology_check", "selection"}

\* The last call ran analyze_model's steps behind the parser on a parsed
\* query whose type has no _perform_* method.
AnalyzedOtherQueryType ==
  /\ op = "analyze_parsed"
  /\ args.parsed_query.query_type \notin DispatchedQueryTypes

\* The dict _execute_specific_analysis starts from: the query type, the
\* entities and the request's parameters.
QueryEcho(parsed_query, parameters) ==
  [query_type |-> parsed_query.query_type, entities |-> parsed_query.entities,
   parameters |-> parameters]

\* C29 as stated: for a query type other than measurement, feature_detection,
\* topology_check and selection (modification, for one) the dispatch invokes
\* no analysis operation, the data of the result is empty, and the result has
\* success true.
C29_OtherQueryTypeGivesEmptyData ==
  AnalyzedOtherQueryType =>
    /\ InvokedOperations = {}
    /\ ret.success
    /\ ret.data = <<>>

\* C29 amended: for such a query type the dispatch invokes no analysis
\* operation and the result has success true and the query type as its
\* result_type; its data is not empty: it holds the query type, the entities
\* and the request's parameters, and nothing of an analysis; features is
\* empty.
C29_OtherQueryTypeGivesQueryEcho ==
  AnalyzedOtherQueryType =>
    /\ InvokedOperations = {}
    /\ ~Invoked("except")
    /\ ret.success
    /\ ret.result_type = args.parsed_query.query_type
    /\ ret.data = QueryEcho(args.parsed_query, args.parameters)
    /\ ret.features = <<>>

\* C29 witness: a parsed query of type modification with an entity went
\* through the dispatch and came back as a success.
C29_Witness ==
  /\ AnalyzedOtherQueryType
  /\ args.parsed_query.query_type = "modification"
  /\ args.parsed_query.entities # <<>>
  /\ ret.success

\* ------------------------------------------------- a caller that retries
\* A fourth specification: one caller of analyze_model that, when its token
\* is rejected, takes the token of the failed result or asks
\* get_current_state() for it (as handle_analyze of cli.py does before it
\* analyzes) and sends the same request again with that token, while other
\* callers upload and clean up models in between.  handlers holds the
\* caller: where it is, its request, the token it holds, and whether a
\* process_upload or cleanup_model was called since it got that token.

Client(phase, request, token, changed) ==
  [phase |-> phase, request |-> request, token |-> token, changed |-> changed]

ClientAtStart == Client("start", <<>>, EmptyId, FALSE)

\* The result says that the request's state_id was rejected: state_conflict
\* of LangGraphNLMeshAgent, the error of _validate_input of LLMNLMeshAgent.
TokenRejected(result) ==
  /\ result.kind = "AnalysisResult"
  /\ \/ result.result_type = "state_conflict"
     \/ result.result_type = "error" /\ result.data.error = "state id mismatch"

RetryInit ==
  /\ agent \in {LangGraphNLMeshAgent, LLMNLMeshAgent}
  /\ model_cache = <<>>
  /\ current_state_id = uuid4(0)
  /\ uuid_count = 1
  /\ past_state_ids = {}
  /\ released = {}
  /\ op = "idle"
  /\ args = <<>>
  /\ ret = None
  /\ trace = <<>>
  /\ wrapper_current_state_id = current_state_id
  /\ handlers = ClientAtStart

\* analyze_model of the agent object under test.
agent_analyze_call(request, engine, response) ==
  IF agent = LangGraphNLMeshAgent
  THEN LangGraph_analyze_call(request, engine)
  ELSE LLM_analyze_call(request, response)

\* request = AnalysisRequest(...); result = agent.analyze_model(request)
ClientAnalyze ==
  /\ op = "idle"
  /\ handlers.phase = "start"
  /\ \E model_id \in KnownModelIds, state_id \in KnownStateIds, text \in ApiTexts,
        engine \in MeshEngine, response \in ApiResponses :
       /\ agent_analyze_call(AnalysisRequest(model_id, text, state_id),
                             engine, response)
       /\ handlers' = Client("analyzed",
                             AnalysisRequest(model_id, text, state_id),
                             EmptyId, FALSE)
  /\ Called

\* state_id = result.state_id, of a result that rejected the token.
ClientTakesResultToken ==
  /\ op = "analyze_model"
  /\ handlers.phase = "analyzed"
  /\ TokenRejected(ret)
  /\ handlers' = Client("holding", handlers.request, ret.state_id, FALSE)
  /\ op' = "idle"
  /\ args' = <<>>
  /\ ret' = None
  /\ trace' = <<>>
  /\ UNCHANGED <<agent, model_cache, current_state_id, uuid_count,
                 past_state_ids, released, wrapper_current_state_id>>

\* The caller drops a result that rejected the token, to ask for the token.
ClientDropsRejected ==
  /\ op = "analyze_model"
  /\ handlers.phase = "analyzed"
  /\ TokenRejected(ret)
  /\ handlers' = [handlers EXCEPT !.phase = "refetching"]
  /\ op' = "idle"
  /\ args' = <<>>
  /\ ret' = None
  /\ trace' = <<>>
  /\ UNCHANGED <<agent, model_cache, current_state_id, uuid_count,
                 past_state_ids, released, wrapper_current_state_id>>

\* state_id = agent.get_current_state()
ClientGetCurrentState ==
  /\ op = "idle"
  /\ handlers.phase = "refetching"
  /\ get_current_state
  /\ handlers' = Client("holding", handlers.request, ret'.value, FALSE)
  /\ Called

\* process_upload called by another caller.
OtherProcessUpload ==
  /\ op = "idle"
  /\ uuid_count + 2 <= MaxUuid
  /\ \E filename \in FileNames, file_format \in FileFormats, processed \in BOOLEAN :
       IF agent = LangGraphNLMeshAgent
       THEN LangGraph_process_upload(filename, file_format, processed)
       ELSE LLM_process_upload(filename, file_format)
  /\ handlers' = [handlers EXCEPT !.changed = TRUE]
  /\ Called

\* cleanup_model called by another caller.
OtherCleanupModel ==
  /\ op = "idle"
  /\ \E model_id \in KnownModelIds :
       /\ model_id \in DOMAIN model_cache => uuid_count + 1 <= MaxUuid
       /\ cleanup_model(model_id)
  /\ handlers' = [handlers EXCEPT !.changed = TRUE]
  /\ Called

\* The same request again, with the token the caller holds.
ClientRetry ==
  /\ op = "idle"
  /\ handlers.phase = "holding"
  /\ \E engine \in MeshEngine, response \in ApiResponses :
       agent_analyze_call([handlers.request EXCEPT !.state_id = handlers.token],
                          engine, response)
  /\ handlers' = [handlers EXCEPT !.phase = "retried"]
  /\ Called

\* The returned value is taken; after an analysis that the caller does not
\* retry, and after the retry, the caller is back at its start.
ClientReturn ==
  /\ op # "idle"
  /\ op' = "idle"
  /\ args' = <<>>
  /\ ret' = None
  /\ trace' = <<>>
  /\ handlers' = IF handlers.phase \in {"analyzed", "retried"}
                 THEN ClientAtStart ELSE handlers
  /\ UNCHANGED <<agent, model_cache, current_state_id, uuid_count,
                 past_state_ids, released, wrapper_current_state_id>>

RetryNext ==
  \/ ClientAnalyze
  \/ ClientTakesResultToken
  \/ ClientDropsRejected
  \/ ClientGetCurrentState
  \/ OtherProcessUpload
  \/ OtherCleanupModel
  \/ ClientRetry
  \/ ClientReturn

RetrySpec == RetryInit /\ [][RetryNext]_vars

\* The last call was the caller's retry, and no process_upload and no
\* cleanup_model was called since the caller got the token it sent.
RetriedUndisturbed ==
  /\ op = "analyze_model"
  /\ handlers.phase = "retried"
  /\ ~handlers.changed

\* C30: a rejected state token is recoverable: when analyze_model rejected
\* the request's state_id, the same request sent again with the token that
\* get_current_state() returned, or with the state_id of the failed result,
\* is not rejected for its token again, provided no process_upload and no
\* cleanup_model was called between getting the token and the retry.
C30_RetryWithFetchedTokenNotRejected ==
  RetriedUndisturbed =>
    /\ args.state_id = current_state_id
    /\ ~TokenRejected(ret)
    /\ ret.result_type # "state_conflict"

\* C30 witness: on LangGraphNLMeshAgent a retry with the fetched token,
\* undisturbed, of a request for a cached model came back as a success.
C30_Witness ==
  /\ RetriedUndisturbed
  /\ agent = LangGraphNLMeshAgent
  /\ ModelRegistered
  /\ ret.success

\* The parser, the tool-selection step or an operation of the mesh engine
\* was invoked by the last call.
ParserOrEngineInvoked ==
  \/ Invoked("parse_query")
  \/ Invoked("llm_with_tools.invoke")
  \/ InvokedOperations # {}
  \/ Invoked("execute_tools")

\* C31: the first failing check in stage order decides the error kind of
\* analyze_model: a stale state_id gives state_conflict whatever the model id
\* is; a matching state_id with an unregistered model id gives
\* model_not_found whatever the query text is; and in both cases neither the
\* parser nor the mesh engine is invoked.
C31_FirstFailingCheckDecides ==
  Analyzed =>
    /\ ~TokenMatches =>
         /\ ret.result_type = "state_conflict"
         /\ ~ParserOrEngineInvoked
    /\ (TokenMatches /\ ~ModelRegistered) =>
         /\ ret.result_type = "model_not_found"
         /\ ~ParserOrEngineInvoked

\* The same on LangGraphNLMeshAgent alone.
C31_OnLangGraphAgent ==
  agent = LangGraphNLMeshAgent => C31_FirstFailingCheckDecides

\* ------------------------------------------- llm_agent.py / node calls
\* A fifth specification calls the node _execute_tools of LLMNLMeshAgent
\* directly on bounded states, as the tests of the repository do.

\* How many tool calls the last message carries at most.
MaxToolCalls == 2

\* The names a tool call may carry: the six tools and one that is none.
ToolNames ==
  { "MeasureVolumeTool", "MeasureSurfaceAreaTool", "DetectHolesTool",
    "DetectFacesTool", "CheckTopologyTool", "AnalyzeConnectivityTool",
    "UnknownTool" }

\* The lists of tool calls of at most n calls, the i-th with id i.
RECURSIVE tool_call_lists(_)
tool_call_lists(n) ==
  IF n = 0 THEN {<<>>}
  ELSE tool_call_lists(n - 1)
         \cup { Append(calls, [name |-> name, id |-> Len(calls) + 1]) :
                  calls \in {c \in tool_call_lists(n - 1) : Len(c) = n - 1},
                  name \in ToolNames }

\* AIMessage(content=..., tool_calls=[...])
AIMessage(tool_calls) ==
  [role |-> "assistant", type |-> "AIMessage", tool_calls |-> tool_calls]

\* The message lists the node is called on: none, the system and the user
\* message followed by an assistant dict, or by an AIMessage.
NodeMessages ==
  { <<>>,
    <<[role |-> "system", type |-> "dict"], [role |-> "user", type |-> "dict"],
      [role |-> "assistant", type |-> "dict"]>> }
  \cup { <<[role |-> "system", type |-> "dict"], [role |-> "user", type |-> "dict"],
           AIMessage(tool_calls)>> : tool_calls \in tool_call_lists(MaxToolCalls) }

\* The tool_results the state holds before the node runs.
NodeToolResults == { <<>>, <<[tool |-> "measure_surface_area"]>> }

\* The AgentState a test builds for the node.
NodeState(messages, tool_results) ==
  [request |-> AnalysisRequest(OtherId, "Measure Volume", EmptyId),
   messages |-> messages, mesh_data |-> [mesh |-> "mesh"],
   tool_results |-> tool_results, final_result |-> None,
   error |-> "", invoked |-> <<>>]

NodeInit ==
  /\ agent = LLMNLMeshAgent
  /\ model_cache = <<>>
  /\ current_state_id = uuid4(0)
  /\ uuid_count = 1
  /\ past_state_ids = {}
  /\ released = {}
  /\ op = "idle"
  /\ args = <<>>
  /\ ret = None
  /\ trace = <<>>
  /\ wrapper_current_state_id = current_state_id
  /\ handlers = <<>>

\* result_state = self.agent._execute_tools(state)
ExecuteTools ==
  /\ op = "idle"
  /\ \E messages \in NodeMessages, tool_results \in NodeToolResults :
       DispatchCall("_execute_tools",
                    [state |-> NodeState(messages, tool_results)],
                    [kind |-> "AgentState",
                     value |-> _execute_tools(NodeState(messages, tool_results))],
                    _execute_tools(NodeState(messages, tool_results)).invoked)

NodeNext ==
  \/ ExecuteTools
  \/ Return

NodeSpec == NodeInit /\ [][NodeNext]_vars

\* The tool calls the last message of the state carries (none for a dict).
ToolCallsOf(state) ==
  IF state.messages = <<>> THEN <<>>
  ELSE IF state.messages[Len(state.messages)].type = "AIMessage"
  THEN state.messages[Len(state.messages)].tool_calls
  ELSE <<>>

\* C32: _execute_tools on a state whose last message carries no tool call
\* and whose tool_results is empty executes the two fallback tools
\* MeasureVolumeTool then CheckTopologyTool, appends their two results in
\* that order and sets no error; on a last message with n tool calls it
\* executes those n tools in order, appends n results and n tool messages,
\* and does not run the fallback.
C32_ExecuteToolsCallsOrFallback ==
  op = "_execute_tools" =>
    /\ (/\ args.state.messages # <<>>
        /\ ToolCallsOf(args.state) = <<>>
        /\ args.state.tool_results = <<>>) =>
         /\ trace = <<"execute_tools", "MeasureVolumeTool", "CheckTopologyTool">>
         /\ ret.value.tool_results
              = <<execute_tool("MeasureVolumeTool"), execute_tool("CheckTopologyTool")>>
         /\ ret.value.messages = args.state.messages
         /\ ret.value.error = ""
    /\ ToolCallsOf(args.state) # <<>> =>
         /\ trace = <<"execute_tools">>
                      \o [i \in DOMAIN ToolCallsOf(args.state) |->
                            ToolCallsOf(args.state)[i].name]
         /\ ret.value.tool_results
              = args.state.tool_results
                  \o [i \in DOMAIN ToolCallsOf(args.state) |->
                        execute_tool(ToolCallsOf(args.state)[i].name)]
         /\ ret.value.messages
              = args.state.messages
                  \o [i \in DOMAIN ToolCallsOf(args.state) |->
                        [role |-> "tool", type |-> "dict",
                         tool_call_id |-> ToolCallsOf(args.state)[i].id]]
         /\ ret.value.error = ""

\* C32 witness: the node ran on a last message with two calls of different
\* tools and appended two results.
C32_Witness ==
  /\ op = "_execute_tools"
  /\ Len(ToolCallsOf(args.state)) = 2
  /\ ToolCallsOf(args.state)[1].name # ToolCallsOf(args.state)[2].name
  /\ Len(ret.value.tool_results) = Len(args.state.tool_results) + 2

\* The tool calls the tool-selection step returned in the last analysis, as
\* trace keeps them.
ReturnedToolCalls ==
  SelectSeq(trace, LAMBDA name : \E tool \in ToolNames : name = "returned " \o tool)

\* The tools the last analysis executed, in order.
ExecutedTools == SelectSeq(trace, LAMBDA name : name \in ToolNames)

\* C33: in the workflow run by analyze_model of LLMNLMeshAgent, when the
\* response of the tool-selection step names n >= 1 tool calls, the tools
\* executed are those n in the returned order and tools_used of the result is
\* n; the fallback pair runs only when the response names no tool call.
C33_WorkflowExecutesSelectedTools ==
  (Analyzed /\ agent = LLMNLMeshAgent /\ Invoked("generate_final_result")
     /\ ReturnedToolCalls # <<>>) =>
    /\ Len(ExecutedTools) = Len(ReturnedToolCalls)
    /\ \A i \in DOMAIN ExecutedTools :
         ReturnedToolCalls[i] = "returned " \o ExecutedTools[i]
    /\ ret.data.tools_used = Len(ReturnedToolCalls)

\* C34: parse_query is total: on every text, a text with a malformed number
\* ("1.2.3mm") included, it returns a parsed query and raises nothing, so an
\* analysis that reached the parser ends in analysis_error only when an
\* operation of the dispatch was invoked and raised.
C34_ParserNeverRaises ==
  (Analyzed /\ Invoked("parse_query")) =>
    /\ ~parse_query_of[args.natural_language_query].raised
    /\ ret.result_type = "analysis_error" => InvokedOperations # {}

\* C35: classify_query_type never returns modification: on every text its
\* result is one of measurement, feature_detection, topology_check and
\* selection, and so is the query_type of what parse_query returns.
C35_QueryTypeNeverModification ==
  /\ op = "classify_query_type" => ret.value \in DispatchedQueryTypes
  /\ (op = "parse_query" /\ ~ret.raised) => ret.query_type \in DispatchedQueryTypes

\* C35 witness: classify_query_type was called on a text that holds a word of
\* the modification intent.
C35_Witness ==
  /\ op = "classify_query_type"
  /\ Contains(args.text, "modify")
  /\ ret.value = "measurement"

\* C36: a process_upload that reports success False leaves the registry as
\* it was: model_cache and current_state_id are those of before the call, and
\* the state_id it returns is that unchanged token.
C36_FailedUploadChangesNothing ==
  [][(op' = "process_upload" /\ op = "idle" /\ ~ret'.success) =>
       /\ model_cache' = model_cache
       /\ current_state_id' = current_state_id
       /\ ret'.state_id = current_state_id]_vars

\* C36 witness: an upload failed on a registry that holds a model.
C36_Witness ==
  /\ op = "process_upload"
  /\ ~ret.success
  /\ model_cache # <<>>
  /\ ret.state_id = current_state_id

\* The handler of caller c ran agent.analyze_model in this step.
AnalyzeStep(c) ==
  /\ handlers[c] = Handler("analyze_model", "start")
  /\ handlers'[c] # handlers[c]

MaxConnections == 3

WebSockets == 1..MaxConnections

NoConnection == 0

\* Lists of distinct websockets: connect appends a websocket once, when its
\* endpoint starts.
ConnectionLists ==
  {l \in UNION {[1..n -> WebSockets] : n \in 0..MaxConnections} :
     \A i, j \in DOMAIN l : i # j => l[i] # l[j]}

InList(l, x) == \E i \in DOMAIN l : l[i] = x

\* list.remove(x): the first occurrence is removed; the caller has checked
\* that there is one.
list_remove(l, x) ==
  LET first == CHOOSE i \in DOMAIN l : l[i] = x /\ \A j \in 1..(i - 1) : l[j] # x
  IN [i \in 1..(Len(l) - 1) |-> IF i < first THEN l[i] ELSE l[i + 1]]

ConnectionManager(active_connections) ==
  [active_connections |-> active_connections,
   pc |-> "idle",
   index |-> 0,
   connection |-> NoConnection,
   at_start |-> <<>>,
   sent |-> [w \in WebSockets |-> 0],
   failed |-> {},
   disturbed |-> FALSE]

BroadcastInit ==
  /\ agent = LLMNLMeshAgent
  /\ model_cache = <<>>
  /\ current_state_id = uuid4(0)
  /\ uuid_count = 1
  /\ past_state_ids = {}
  /\ released = {}
  /\ op = "idle"
  /\ args = <<>>
  /\ ret = None
  /\ trace = <<>>
  /\ wrapper_current_state_id = current_state_id
  /\ \E active_connections \in ConnectionLists :
       handlers = ConnectionManager(active_connections)

ManagerStep(manager) ==
  /\ handlers' = manager
  /\ UNCHANGED <<agent, model_cache, current_state_id, uuid_count,
                 past_state_ids, released, op, args, ret, trace,
                 wrapper_current_state_id>>

\* await manager.broadcast(message): the coroutine starts, the for statement
\* takes an iterator of self.active_connections.
BroadcastCall ==
  /\ handlers.pc = "idle"
  /\ ManagerStep([ConnectionManager(handlers.active_connections) EXCEPT
                    !.pc = "for",
                    !.at_start = handlers.active_connections])

\* for connection in self.active_connections: the iterator gives the element
\* at its position in the list as it is now and moves on by one, or ends the
\* loop when its position is past the end of the list as it is now.
BroadcastFor ==
  /\ handlers.pc = "for"
  /\ ManagerStep(
       IF handlers.index < Len(handlers.active_connections)
       THEN [handlers EXCEPT
               !.pc = "send_text",
               !.connection = handlers.active_connections[handlers.index + 1],
               !.index = @ + 1]
       ELSE [handlers EXCEPT !.pc = "returned"])

\* await connection.send_text(message) returns.
SendTextReturns ==
  /\ handlers.pc = "send_text"
  /\ ManagerStep([handlers EXCEPT
                    !.pc = "for",
                    !.sent[handlers.connection] = @ + 1])

\* await connection.send_text(message) raises: the bare except removes the
\* connection from the list that the loop is iterating; list.remove raises
\* ValueError out of the handler when the connection is no longer in it.
SendTextRaises ==
  /\ handlers.pc = "send_text"
  /\ ManagerStep(
       IF InList(handlers.active_connections, handlers.connection)
       THEN [handlers EXCEPT
               !.pc = "for",
               !.failed = @ \cup {handlers.connection},
               !.active_connections = list_remove(@, handlers.connection)]
       ELSE [handlers EXCEPT
               !.pc = "raised",
               !.failed = @ \cup {handlers.connection}])

\* manager.connect(websocket) of another websocket_endpoint, run while the
\* broadcast is suspended in send_text.
Connect ==
  /\ handlers.pc = "send_text"
  /\ \E websocket \in WebSockets :
       /\ ~InList(handlers.active_connections, websocket)
       /\ ManagerStep([handlers EXCEPT
                         !.active_connections = Append(@, websocket),
                         !.disturbed = TRUE])

\* manager.disconnect(websocket) of a websocket_endpoint whose receive_text
\* raised WebSocketDisconnect, run while the broadcast is suspended in
\* send_text.
Disconnect ==
  /\ handlers.pc = "send_text"
  /\ \E websocket \in WebSockets :
       /\ InList(handlers.active_connections, websocket)
       /\ ManagerStep([handlers EXCEPT
                         !.active_connections = list_remove(@, websocket),
                         !.disturbed = TRUE])

\* The handler that awaited the broadcast goes on; the manager keeps its list.
BroadcastReturn ==
  /\ handlers.pc \in {"returned", "raised"}
  /\ ManagerStep(ConnectionManager(handlers.active_connections))

BroadcastNext ==
  \/ BroadcastCall
  \/ BroadcastFor
  \/ SendTextReturns
  \/ SendTextRaises
  \/ Connect
  \/ Disconnect
  \/ BroadcastReturn

BroadcastSpec == BroadcastInit /\ [][BroadcastNext]_vars

\* The broadcast has returned and no connect or disconnect ran during it.
BroadcastReturnedUndisturbed ==
  /\ handlers.pc = "returned"
  /\ ~handlers.disturbed

\* C38: after a broadcast during which no endpoint connected or disconnected
\* has returned, every connection that was in active_connections when it
\* started has either had its send fail and is removed, or is still in
\* active_connections and has been sent the message exactly once.
C38_BroadcastReachesEveryConnection ==
  BroadcastReturnedUndisturbed =>
    \A i \in DOMAIN handlers.at_start :
      LET connection == handlers.at_start[i]
      IN IF connection \in handlers.failed
         THEN ~InList(handlers.active_connections, connection)
         ELSE /\ InList(handlers.active_connections, connection)
              /\ handlers.sent[connection] = 1

\* What the loop does keep: a connection is sent the message at most once, a
\* connection whose send failed is removed, and one whose send did not fail
\* stays registered.
C38_BroadcastKeeps ==
  BroadcastReturnedUndisturbed =>
    \A i \in DOMAIN handlers.at_start :
      LET connection == handlers.at_start[i]
      IN /\ handlers.sent[connection] <= 1
         /\ connection \in handlers.failed
              <=> ~InList(handlers.active_connections, connection)

====
